---------------------------- MODULE Spec2Model ----------------------------
(***************************************************************************)
(* Luminote backend: the content cache (app/services/caching_service.py)   *)
(* and the block segmentation of the extraction service                    *)
(* (app/services/extraction_service.py), and the streaming translation    *)
(* endpoint (app/api/v1/endpoints/translate.py), as state machines.        *)
(*                                                                         *)
(*   Spec      one CachingService used by one caller (operations atomic)   *)
(*   SpecConc  one CachingService shared by several threads (RLock steps)  *)
(*   SpecSeg   ExtractionService block segmentation and metadata           *)
(*   SpecLines ExtractionService._remove_line_numbers                      *)
(*   SpecHead  ExtractionService._build_heading_structure                  *)
(*   SpecMeta  ExtractionService._extract_metadata on structured data      *)
(*   SpecStream  the event generator of the streaming translation endpoint *)
(*   SpecVer   VersioningService.save_version with its pruning            *)
(*   SpecKey   CachingService._make_cache_key                              *)
(*   SpecApi   the extract endpoint: cache lookup, extraction, cache store *)
(***************************************************************************)
EXTENDS Integers, Sequences, FiniteSets, TLC

VARIABLES
    \* ---- CachingService (sequential use) ----
    cache,      \* self._cache: OrderedDict, oldest position first
    stats,      \* self._stats
    now,        \* time.time()
    nops,       \* number of public calls made so far
    last,       \* the call that returned last (observation of the caller)
    prev,       \* the call before it
    lastSet,    \* per key: time of the latest set that stored it (0 = never)
    lastUse,    \* per key: time of its latest write or successful get
    \* ---- CachingService (threads) ----
    ccache,     \* self._cache
    cstats,     \* self._stats
    cnow,       \* time.time()
    lock,       \* self._lock: 0 when free, else the thread holding it
    pc,         \* per thread: where it is inside its current call
    op,         \* per thread: the current call and its local variables
    snap,       \* per thread: cache and stats when it took the lock
    cret,       \* per thread: the value its last call returned
    mine,       \* per thread: the key it stored last, and whether it is intact
    cops,       \* number of calls started so far

    \* ---- ExtractionService ----
    rawDoc, doc, runs,

    \* ---- ExtractionService._remove_line_numbers ----
    codeText,   \* the code text handed to the first call
    passes,     \* the results of the calls made so far, each on the previous result

    \* ---- ExtractionService._build_heading_structure ----
    headingBlocks,  \* the content_blocks handed to the call
    structure,      \* the structure it returned

    \* ---- ExtractionService._extract_metadata (structured data, article type) ----
    page,       \* what the soup of the original HTML holds
    meta,       \* the outcome of the call: the metadata returned, or the exception

    \* ---- stream_translation.event_generator ----
    request,    \* translation_request.content_blocks
    gen,        \* the generator: where it is, and its local counters
    events,     \* the SSE events yielded so far
    calls,      \* what translate_block did for each block tried so far
    connected,  \* FALSE once request.is_disconnected() answers true

    \* ---- VersioningService ----
    files,      \* the version files under self.storage_path
    vnow,       \* datetime.now(UTC)
    saves,      \* the versions save_version returned so far, oldest first
    deleted,    \* the files the last save_version unlinked

    \* ---- CachingService._make_cache_key ----
    keyUrl,     \* the url handed to the call
    cacheKey,   \* the key it returned

    \* ---- extract_content (the endpoint, on the cache of Spec) ----
    inflight,   \* the requests awaiting extraction_service.extract
    reqs        \* the requests that ended, in the order they ended

cacheVars == <<cache, stats, now, nops, last, prev, lastSet, lastUse>>
concVars  == <<ccache, cstats, cnow, lock, pc, op, snap, cret, mine, cops>>
segVars   == <<rawDoc, doc, runs>>
lineVars  == <<codeText, passes>>
headVars  == <<headingBlocks, structure>>
metaVars  == <<page, meta>>
streamVars == <<request, gen, events, calls, connected>>
verVars   == <<files, vnow, saves, deleted>>
keyVars   == <<keyUrl, cacheKey>>
apiVars   == <<inflight, reqs>>
moreVars  == <<verVars, keyVars, apiVars>>
pureVars  == <<lineVars, headVars, metaVars, streamVars, moreVars>>
vars      == <<cacheVars, concVars, segVars, pureVars>>

-----------------------------------------------------------------------------
(* Bounds of the model *)

MaxStorageBytes == 4     \* max_storage_bytes the service is constructed with
TtlSeconds      == 2     \* ttl_seconds the service is constructed with
MaxTime         == 2     \* the clock stops advancing here
MaxOps          == 3     \* public calls per behaviour
ConcTtlSeconds  == 1     \* ttl_seconds of the service shared by threads
MaxConcOps      == 2     \* calls started by the threads per behaviour
MaxConcTime     == 1     \* the clock of the threaded service stops here
MaxUnits        == 2     \* top-level elements of a document
MaxLines        == 5     \* lines of a code text
MaxBlocks       == 5     \* blocks handed to _build_heading_structure
MaxLevel        == 3     \* deepest heading level among them
MaxStreamBlocks == 3     \* content_blocks of a streaming translation request
MaxTokens       == 2     \* tokens_used a provider reports for one block
MaxSaves        == 6     \* save_version calls per behaviour
MaxUrlLength    == 202   \* characters of the longest url keyed
MaxRequests     == 3     \* requests the extract endpoint receives

(* Program constants *)

MAX_URL_LENGTH_FOR_KEY == 200
HashKeyLength          == 73     \* len("url_hash:") + 64 hex digits
KeepCount              == 5      \* keep_count of prune_old_versions

None == <<>>              \* Python None as a return value
Some(x) == <<x>>
NoKey == [kind |-> "none", text |-> "", len |-> 0]

-----------------------------------------------------------------------------
(* Inputs *)

\* A URL is represented by a name and its length in characters.
Urls == { [name |-> "b", len |-> 200],
          [name |-> "c", len |-> 201] }

\* An ExtractedContent is identified by the length of its gzip-compressed JSON;
\* the last one does not fit the quota on its own.
Contents == {2, 3, MaxStorageBytes + 1}

ZeroStats == [hits |-> 0, misses |-> 0, evictions |-> 0, expirations |-> 0]

-----------------------------------------------------------------------------
(* CachingService helpers *)

MakeCacheKeyStrict(url) ==
    IF url.len < MAX_URL_LENGTH_FOR_KEY
    THEN [kind |-> "url", text |-> url.name, len |-> url.len]
    ELSE [kind |-> "url_hash",
          text |-> [b |-> "sha256_b", c |-> "sha256_c"][url.name],
          len |-> HashKeyLength]

\* hashlib.sha256(url).hexdigest() has 64 hex digits, distinct for distinct URLs
MakeCacheKey(url) ==
    IF url.len <= MAX_URL_LENGTH_FOR_KEY
    THEN [kind |-> "url", text |-> url.name, len |-> url.len]
    ELSE [kind |-> "url_hash",
          text |-> [b |-> "sha256_b", c |-> "sha256_c"][url.name],
          len |-> HashKeyLength]

Keys == { MakeCacheKey(u) : u \in Urls }

\* gzip.compress(model_dump_json()): the payload and its length
CompressContent(content) == [payload |-> content, valid |-> TRUE, len |-> content]

\* gzip.decompress + json.loads + ExtractedContent(**data)
DecompressContent(data) ==
    IF data.valid THEN [raised |-> FALSE, content |-> data.payload]
                  ELSE [raised |-> TRUE, content |-> 0]

CacheEntry(compressed_data, expires_at, size_bytes, key, t) ==
    [key |-> key, compressed_data |-> compressed_data, expires_at |-> expires_at,
     size_bytes |-> size_bytes, last_accessed |-> t]

RECURSIVE SumSizes(_)
SumSizes(c) == IF c = <<>> THEN 0 ELSE Head(c).size_bytes + SumSizes(Tail(c))

GetCurrentStorageBytes(c) == SumSizes(c)

HasKey(c, k) == \E i \in 1..Len(c) : c[i].key = k

EntryOf(c, k) == c[CHOOSE i \in 1..Len(c) : c[i].key = k]

DelKey(c, k) == SelectSeq(c, LAMBDA e : e.key # k)

PutLastKeepsOld(c, e) == IF HasKey(c, e.key) THEN c ELSE Append(c, e)

\* OrderedDict.__setitem__ followed by move_to_end
PutLast(c, e) == Append(DelKey(c, e.key), e)

IsExpiredStrict(entry, t) == entry.expires_at < t

\* the expiry test of _cleanup_expired and of get: expires_at <= time.time()
IsExpired(entry, t) == entry.expires_at <= t

\* _cleanup_expired at clock reading t
CleanupExpired(c, t) == SelectSeq(c, LAMBDA e : ~IsExpired(e, t))

TouchSliding(entry, t) ==
    [entry EXCEPT !.last_accessed = t, !.expires_at = t + TtlSeconds]

\* get: entry.last_accessed = time.time()
Touch(entry, t) == [entry EXCEPT !.last_accessed = t]

\* sorted(items, key=last_accessed): stable, oldest first
RECURSIVE InsertByAccess(_, _)
InsertByAccess(s, e) ==
    IF s = <<>> THEN <<e>>
    ELSE IF Head(s).last_accessed <= e.last_accessed
         THEN <<Head(s)>> \o InsertByAccess(Tail(s), e)
         ELSE <<e>> \o s

RECURSIVE SortedItems(_)
SortedItems(c) ==
    IF c = <<>> THEN <<>>
    ELSE InsertByAccess(SortedItems(SubSeq(c, 1, Len(c) - 1)), c[Len(c)])

\* the loop of _evict_lru: the keys it deletes, in order
RECURSIVE EvictLoop(_, _, _)
EvictLoop(sorted_items, bytes_freed, bytes_needed) ==
    IF sorted_items = <<>> \/ bytes_freed >= bytes_needed THEN <<>>
    ELSE <<Head(sorted_items).key>> \o
         EvictLoop(Tail(sorted_items), bytes_freed + Head(sorted_items).size_bytes,
                   bytes_needed)

EvictedKeys(c, bytes_needed) == EvictLoop(SortedItems(c), 0, bytes_needed)

SeqToSet(s) == { s[i] : i \in 1..Len(s) }

EvictLru(c, bytes_needed) ==
    SelectSeq(c, LAMBDA e : e.key \notin SeqToSet(EvictedKeys(c, bytes_needed)))

DropCorruptNoop(c, k) == c

\* get, except branch: del self._cache[cache_key]
DropCorrupt(c, k) == DelKey(c, k)

\* set(): bytes to free, computed from the swept cache
SpaceNeeded(c, k, size_bytes) ==
    LET current_storage == GetCurrentStorageBytes(c) -
                           (IF HasKey(c, k) THEN EntryOf(c, k).size_bytes ELSE 0)
    IN  (current_storage + size_bytes) - MaxStorageBytes

\* set(): the body run under the lock.  expires_at was computed before the
\* lock was taken; t1 is the clock at the sweep, t the clock when the
\* CacheEntry is constructed (t1 <= t).
SetLocked(c, st, k, compressed_data, expires_at, t1, t) ==
    LET swept   == CleanupExpired(c, t1)
        needed  == SpaceNeeded(swept, k, compressed_data.len)
        evicted == IF needed > 0 THEN EvictedKeys(swept, needed) ELSE <<>>
        kept    == IF needed > 0 THEN EvictLru(swept, needed) ELSE swept
        entry   == CacheEntry(compressed_data, expires_at, compressed_data.len, k, t)
    IN  [cache   |-> PutLast(kept, entry),
         stats   |-> [st EXCEPT !.expirations = @ + (Len(c) - Len(swept)),
                                !.evictions = @ + Len(evicted)],
         ret     |-> None,
         swept   |-> swept,
         evicted |-> evicted]

\* get(): the body run under the lock.  t1 is the clock at the sweep, t2 the
\* clock at the expiry check and the access-time update (t1 <= t2).
GetLocked(c, st, k, t1, t2) ==
    LET swept == CleanupExpired(c, t1)
        st1   == [st EXCEPT !.expirations = @ + (Len(c) - Len(swept))]
    IN  IF ~HasKey(swept, k)
        THEN [cache |-> swept, stats |-> [st1 EXCEPT !.misses = @ + 1],
              ret |-> None, swept |-> swept, how |-> "absent"]
        ELSE LET entry == EntryOf(swept, k) IN
             IF IsExpired(entry, t2)
             THEN [cache |-> DelKey(swept, k),
                   stats |-> [st1 EXCEPT !.misses = @ + 1, !.expirations = @ + 1],
                   ret |-> None, swept |-> swept, how |-> "expired"]
             ELSE LET touched == PutLast(swept, Touch(entry, t2))
                      content == DecompressContent(entry.compressed_data)
                  IN  IF content.raised
                      THEN [cache |-> DropCorrupt(touched, k),
                            stats |-> [st1 EXCEPT !.hits = @ + 1, !.misses = @ + 1],
                            ret |-> None, swept |-> swept, how |-> "corrupt"]
                      ELSE [cache |-> touched,
                            stats |-> [st1 EXCEPT !.hits = @ + 1],
                            ret |-> Some(content.content), swept |-> swept, how |-> "hit"]

InvalidateLockedKeeps(c, k) == [cache |-> c, ret |-> Some(HasKey(c, k))]

\* invalidate(): the body run under the lock
InvalidateLocked(c, k) ==
    IF HasKey(c, k) THEN [cache |-> DelKey(c, k), ret |-> Some(TRUE)]
                    ELSE [cache |-> c, ret |-> Some(FALSE)]

GetStats(c, st) ==
    [hits |-> st.hits, misses |-> st.misses, evictions |-> st.evictions,
     expirations |-> st.expirations,
     entry_count |-> Len(c), storage_bytes |-> GetCurrentStorageBytes(c)]

-----------------------------------------------------------------------------
(* CachingService used by one caller: every public call is one action *)

NoCall == [op |-> "none", key |-> NoKey, val |-> 0, ret |-> None, how |-> "none",
           had |-> FALSE,
           t0 |-> 0, t1 |-> 0, t2 |-> 0, pre |-> <<>>, swept |-> <<>>,
           evicted |-> <<>>, prestats |-> ZeroStats]

\* what the caller remembers of the call before the last one
Brief(call) == [op |-> call.op, key |-> call.key, val |-> call.val,
                how |-> call.how, had |-> call.had, t0 |-> call.t0]

IdleConc ==
    /\ ccache = <<>> /\ cstats = ZeroStats /\ cnow = 0 /\ lock = 0
    /\ pc = <<>> /\ op = <<>> /\ snap = <<>> /\ cret = <<>>
    /\ mine = <<>> /\ cops = 0

IdleSeg == rawDoc = <<>> /\ doc = <<>> /\ runs = <<>>

IdleLines == codeText = <<>> /\ passes = <<>>

IdleHead == headingBlocks = <<>> /\ structure = <<>>

IdleMeta == page = <<>> /\ meta = <<>>

IdleStream ==
    /\ request = <<>> /\ gen = <<>> /\ events = <<>> /\ calls = <<>>
    /\ connected = TRUE

IdleVer == files = {} /\ vnow = 0 /\ saves = <<>> /\ deleted = {}

IdleKey == keyUrl = <<>> /\ cacheKey = <<>>

IdleApi == inflight = {} /\ reqs = <<>>

IdleMore == IdleVer /\ IdleKey /\ IdleApi

IdlePure == IdleLines /\ IdleHead /\ IdleMeta /\ IdleStream /\ IdleMore

IdleCache ==
    /\ cache = <<>> /\ stats = ZeroStats /\ now = 0 /\ nops = 0
    /\ last = NoCall /\ prev = Brief(NoCall)
    /\ lastSet = <<>> /\ lastUse = <<>>

Init ==
    /\ cache = <<>>
    /\ stats = ZeroStats
    /\ now = 0
    /\ nops = 0
    /\ last = NoCall
    /\ prev = Brief(NoCall)
    /\ lastSet = [k \in Keys |-> 0]
    /\ lastUse = [k \in Keys |-> 0]
    /\ IdleConc
    /\ IdleSeg
    /\ IdlePure

\* time passes between two calls
Tick ==
    /\ now < MaxTime
    /\ now' = now + 1
    /\ UNCHANGED <<cache, stats, nops, last, prev, lastSet, lastUse>>
    /\ UNCHANGED <<concVars, segVars, pureVars>>

\* set(url, content)
Set(url, content) ==
    /\ nops < MaxOps
    /\ LET k   == MakeCacheKey(url)
           cd  == CompressContent(content)
           exp == now + TtlSeconds
           r   == SetLocked(cache, stats, k, cd, exp, now, now)
       IN  /\ cache' = r.cache
           /\ stats' = r.stats
           /\ lastSet' = [lastSet EXCEPT ![k] = now]
           /\ lastUse' = [lastUse EXCEPT ![k] = now]
           /\ last' = [NoCall EXCEPT !.op = "set", !.key = k, !.val = content,
                          !.how = "stored", !.had = HasKey(cache, k),
                          !.t0 = now, !.t1 = now,
                          !.t2 = now, !.pre = cache, !.swept = r.swept,
                          !.evicted = r.evicted, !.prestats = stats]
    /\ prev' = Brief(last)
    /\ nops' = nops + 1
    /\ UNCHANGED now
    /\ UNCHANGED <<concVars, segVars, pureVars>>

SetFailsAfterSweep(url, content) ==
    /\ nops < MaxOps
    /\ cache' = CleanupExpired(cache, now)
    /\ stats' = [stats EXCEPT !.expirations = @ + (Len(cache) - Len(cache'))]
    /\ last' = [NoCall EXCEPT !.op = "set", !.key = MakeCacheKey(url),
                   !.val = content, !.how = "compress_failed",
                   !.had = HasKey(cache, MakeCacheKey(url)), !.t0 = now,
                   !.t1 = now, !.t2 = now, !.pre = cache, !.swept = cache',
                   !.prestats = stats]
    /\ prev' = Brief(last)
    /\ nops' = nops + 1
    /\ UNCHANGED <<now, lastSet, lastUse>>
    /\ UNCHANGED <<concVars, segVars, pureVars>>

\* set(url, content) when _compress_content raises: caught and logged
SetCompressFails(url, content) ==
    /\ nops < MaxOps
    /\ last' = [NoCall EXCEPT !.op = "set", !.key = MakeCacheKey(url),
                   !.val = content, !.how = "compress_failed",
                   !.had = HasKey(cache, MakeCacheKey(url)), !.t0 = now,
                   !.t1 = now, !.t2 = now, !.pre = cache, !.swept = cache,
                   !.prestats = stats]
    /\ prev' = Brief(last)
    /\ nops' = nops + 1
    /\ UNCHANGED <<cache, stats, now, lastSet, lastUse>>
    /\ UNCHANGED <<concVars, segVars, pureVars>>

\* get(url); d is the time that passes between the sweep and the expiry check
Get(url, d) ==
    /\ nops < MaxOps
    /\ now + d <= MaxTime
    /\ LET k == MakeCacheKey(url)
           r == GetLocked(cache, stats, k, now, now + d)
       IN  /\ cache' = r.cache
           /\ stats' = r.stats
           /\ now' = now + d
           /\ lastUse' = IF r.how = "hit" THEN [lastUse EXCEPT ![k] = now + d]
                         ELSE lastUse
           /\ last' = [NoCall EXCEPT !.op = "get", !.key = k, !.ret = r.ret,
                          !.how = r.how, !.t0 = now, !.t1 = now, !.t2 = now + d,
                          !.pre = cache, !.swept = r.swept, !.prestats = stats]
    /\ prev' = Brief(last)
    /\ nops' = nops + 1
    /\ UNCHANGED lastSet
    /\ UNCHANGED <<concVars, segVars, pureVars>>

Invalidate(url) ==
    /\ nops < MaxOps
    /\ LET k == MakeCacheKey(url)
           r == InvalidateLocked(cache, k)
       IN  /\ cache' = r.cache
           /\ last' = [NoCall EXCEPT !.op = "invalidate", !.key = k, !.ret = r.ret,
                          !.t0 = now, !.t1 = now, !.t2 = now, !.pre = cache,
                          !.swept = cache, !.prestats = stats]
    /\ prev' = Brief(last)
    /\ nops' = nops + 1
    /\ UNCHANGED <<stats, now, lastSet, lastUse>>
    /\ UNCHANGED <<concVars, segVars, pureVars>>

Clear ==
    /\ nops < MaxOps
    /\ cache' = <<>>
    /\ last' = [NoCall EXCEPT !.op = "clear", !.t0 = now, !.t1 = now, !.t2 = now,
                   !.pre = cache, !.swept = cache, !.prestats = stats]
    /\ prev' = Brief(last)
    /\ nops' = nops + 1
    /\ UNCHANGED <<stats, now, lastSet, lastUse>>
    /\ UNCHANGED <<concVars, segVars, pureVars>>

\* the stored payload of an entry is damaged (bytes no longer gunzip/parse)
Corrupt(k) ==
    /\ HasKey(cache, k)
    /\ EntryOf(cache, k).compressed_data.valid
    /\ cache' = [i \in 1..Len(cache) |->
                    IF cache[i].key = k
                    THEN [cache[i] EXCEPT !.compressed_data.valid = FALSE]
                    ELSE cache[i]]
    /\ last' = [NoCall EXCEPT !.op = "corrupt", !.key = k, !.pre = cache,
                   !.swept = cache, !.prestats = stats]
    /\ prev' = Brief(last)
    /\ UNCHANGED <<stats, now, nops, lastSet, lastUse>>
    /\ UNCHANGED <<concVars, segVars, pureVars>>

Next ==
    \/ Tick
    \/ \E url \in Urls, content \in Contents : Set(url, content)
    \/ \E url \in Urls, content \in Contents : SetCompressFails(url, content)
    \/ \E url \in Urls, d \in 0..1 : Get(url, d)
    \/ \E url \in Urls : Invalidate(url)
    \/ Clear
    \/ \E k \in Keys : Corrupt(k)

Spec == Init /\ [][Next]_vars

-----------------------------------------------------------------------------
(* CachingService shared by threads: every statement group that takes,     *)
(* holds or releases self._lock is one step                                 *)

Threads == {1, 2}

\* contents written by the threads (compressed lengths)
ConcContents == {2, 3}

NoOp == [name |-> "none", key |-> NoKey, val |-> 0, compressed_data |-> CompressContent(0),
         expires_at |-> 0, t1 |-> 0, t2 |-> 0]

LockAlwaysGranted(t) == TRUE

\* the with-statement on self._lock (an RLock): free, or already held by t
LockGranted(t) == lock = 0 \/ lock = t

\* bookkeeping: a thread's stored key stays intact until some step removes the
\* entry or another thread writes the key
MineAfter(actor, newCache, storedKey, storedVal) ==
    [u \in Threads |->
        IF u = actor /\ storedKey # NoKey
        THEN [key |-> storedKey, val |-> storedVal, intact |-> TRUE]
        ELSE IF mine[u].key = storedKey \/ (\A i \in 1..Len(newCache) : newCache[i].key # mine[u].key)
             THEN [mine[u] EXCEPT !.intact = FALSE]
             ELSE mine[u]]

InitConc ==
    /\ ccache = <<>>
    /\ cstats = ZeroStats
    /\ cnow = 0
    /\ lock = 0
    /\ pc = [t \in Threads |-> "idle"]
    /\ op = [t \in Threads |-> NoOp]
    /\ snap = [t \in Threads |-> [cache |-> <<>>, stats |-> ZeroStats]]
    /\ cret = [t \in Threads |-> [name |-> "none", key |-> NoKey, ret |-> None]]
    /\ mine = [t \in Threads |-> [key |-> NoKey, val |-> 0, intact |-> FALSE]]
    /\ cops = 0
    /\ IdleCache
    /\ IdleSeg
    /\ IdlePure

CTick ==
    /\ cnow < MaxConcTime
    /\ cnow' = cnow + 1
    /\ UNCHANGED <<ccache, cstats, lock, pc, op, snap, cret, mine, cops>>
    /\ UNCHANGED <<cacheVars, segVars, pureVars>>

\* a thread enters get/invalidate/clear/get_stats: the key is computed
\* before the lock is requested
CCall(t, name, url) ==
    /\ pc[t] = "idle"
    /\ cops < MaxConcOps
    /\ op' = [op EXCEPT ![t] = [NoOp EXCEPT !.name = name, !.key = MakeCacheKey(url)]]
    /\ pc' = [pc EXCEPT ![t] = "lock"]
    /\ cops' = cops + 1
    /\ UNCHANGED <<ccache, cstats, cnow, lock, snap, cret, mine>>
    /\ UNCHANGED <<cacheVars, segVars, pureVars>>

\* a thread enters set: compression and expires_at happen before the lock
CCallSet(t, url, content) ==
    /\ pc[t] = "idle"
    /\ cops < MaxConcOps
    /\ op' = [op EXCEPT ![t] = [NoOp EXCEPT !.name = "set", !.key = MakeCacheKey(url),
                                   !.val = content,
                                   !.compressed_data = CompressContent(content),
                                   !.expires_at = cnow + ConcTtlSeconds]]
    /\ pc' = [pc EXCEPT ![t] = "lock"]
    /\ cops' = cops + 1
    /\ UNCHANGED <<ccache, cstats, cnow, lock, snap, cret, mine>>
    /\ UNCHANGED <<cacheVars, segVars, pureVars>>

\* with self._lock: entered
CAcquire(t) ==
    /\ pc[t] = "lock"
    /\ LockGranted(t)
    /\ lock' = t
    /\ snap' = [snap EXCEPT ![t] = [cache |-> ccache, stats |-> cstats]]
    /\ pc' = [pc EXCEPT ![t] =
                 IF op[t].name \in {"get", "set"} THEN "sweep" ELSE op[t].name]
    /\ UNCHANGED <<ccache, cstats, cnow, op, cret, mine, cops>>
    /\ UNCHANGED <<cacheVars, segVars, pureVars>>

\* get and set: self._cleanup_expired()
CSweep(t) ==
    /\ pc[t] = "sweep"
    /\ LET swept == CleanupExpired(ccache, cnow) IN
       /\ ccache' = swept
       /\ cstats' = [cstats EXCEPT !.expirations = @ + (Len(ccache) - Len(swept))]
       /\ mine' = MineAfter(t, swept, NoKey, 0)
    /\ op' = [op EXCEPT ![t].t1 = cnow]
    /\ pc' = [pc EXCEPT ![t] = IF op[t].name = "get" THEN "lookup" ELSE "evict"]
    /\ UNCHANGED <<cnow, lock, snap, cret, cops>>
    /\ UNCHANGED <<cacheVars, segVars, pureVars>>

\* get: look the key up, check expiry, refresh the access time, count the hit
CLookup(t) ==
    /\ pc[t] = "lookup"
    /\ LET k == op[t].key IN
       IF ~HasKey(ccache, k)
       THEN /\ cstats' = [cstats EXCEPT !.misses = @ + 1]
            /\ cret' = [cret EXCEPT ![t] = [name |-> "get", key |-> k, ret |-> None]]
            /\ pc' = [pc EXCEPT ![t] = "unlock"]
            /\ UNCHANGED <<ccache, mine>>
       ELSE IF IsExpired(EntryOf(ccache, k), cnow)
       THEN /\ ccache' = DelKey(ccache, k)
            /\ cstats' = [cstats EXCEPT !.misses = @ + 1, !.expirations = @ + 1]
            /\ cret' = [cret EXCEPT ![t] = [name |-> "get", key |-> k, ret |-> None]]
            /\ mine' = MineAfter(t, DelKey(ccache, k), NoKey, 0)
            /\ pc' = [pc EXCEPT ![t] = "unlock"]
       ELSE /\ ccache' = PutLast(ccache, Touch(EntryOf(ccache, k), cnow))
            /\ cstats' = [cstats EXCEPT !.hits = @ + 1]
            /\ pc' = [pc EXCEPT ![t] = "decompress"]
            /\ UNCHANGED <<cret, mine>>
    /\ op' = [op EXCEPT ![t].t2 = cnow]
    /\ UNCHANGED <<cnow, lock, snap, cops>>
    /\ UNCHANGED <<cacheVars, segVars, pureVars>>

\* get: decompress the entry found by the lookup and return
CDecompress(t) ==
    /\ pc[t] = "decompress"
    /\ LET k == op[t].key
           content == DecompressContent(EntryOf(ccache, k).compressed_data)
       IN  IF content.raised
           THEN /\ ccache' = DropCorrupt(ccache, k)
                /\ cstats' = [cstats EXCEPT !.misses = @ + 1]
                /\ cret' = [cret EXCEPT ![t] = [name |-> "get", key |-> k, ret |-> None]]
                /\ mine' = MineAfter(t, DropCorrupt(ccache, k), NoKey, 0)
           ELSE /\ cret' = [cret EXCEPT ![t] =
                               [name |-> "get", key |-> k, ret |-> Some(content.content)]]
                /\ UNCHANGED <<ccache, cstats, mine>>
    /\ pc' = [pc EXCEPT ![t] = "unlock"]
    /\ UNCHANGED <<cnow, lock, op, snap, cops>>
    /\ UNCHANGED <<cacheVars, segVars, pureVars>>

\* set: compute the space needed and evict
CEvict(t) ==
    /\ pc[t] = "evict"
    /\ LET needed == SpaceNeeded(ccache, op[t].key, op[t].compressed_data.len)
           kept   == IF needed > 0 THEN EvictLru(ccache, needed) ELSE ccache
       IN  /\ ccache' = kept
           /\ cstats' = [cstats EXCEPT !.evictions = @ + (Len(ccache) - Len(kept))]
           /\ mine' = MineAfter(t, kept, NoKey, 0)
    /\ pc' = [pc EXCEPT ![t] = "store"]
    /\ UNCHANGED <<cnow, lock, op, snap, cret, cops>>
    /\ UNCHANGED <<cacheVars, segVars, pureVars>>

\* set: construct the CacheEntry and store it at the end
CStore(t) ==
    /\ pc[t] = "store"
    /\ LET entry == CacheEntry(op[t].compressed_data, op[t].expires_at,
                               op[t].compressed_data.len, op[t].key, cnow)
       IN  /\ ccache' = PutLast(ccache, entry)
           /\ mine' = MineAfter(t, PutLast(ccache, entry), op[t].key, op[t].val)
    /\ op' = [op EXCEPT ![t].t2 = cnow]
    /\ cret' = [cret EXCEPT ![t] = [name |-> "set", key |-> op[t].key, ret |-> None]]
    /\ pc' = [pc EXCEPT ![t] = "unlock"]
    /\ UNCHANGED <<cstats, cnow, lock, snap, cops>>
    /\ UNCHANGED <<cacheVars, segVars, pureVars>>

CInvalidate(t) ==
    /\ pc[t] = "invalidate"
    /\ LET r == InvalidateLocked(ccache, op[t].key) IN
       /\ ccache' = r.cache
       /\ cret' = [cret EXCEPT ![t] =
                      [name |-> "invalidate", key |-> op[t].key, ret |-> r.ret]]
       /\ mine' = MineAfter(t, r.cache, NoKey, 0)
    /\ pc' = [pc EXCEPT ![t] = "unlock"]
    /\ UNCHANGED <<cstats, cnow, lock, op, snap, cops>>
    /\ UNCHANGED <<cacheVars, segVars, pureVars>>

CClear(t) ==
    /\ pc[t] = "clear"
    /\ ccache' = <<>>
    /\ cret' = [cret EXCEPT ![t] = [name |-> "clear", key |-> NoKey, ret |-> None]]
    /\ mine' = MineAfter(t, <<>>, NoKey, 0)
    /\ pc' = [pc EXCEPT ![t] = "unlock"]
    /\ UNCHANGED <<cstats, cnow, lock, op, snap, cops>>
    /\ UNCHANGED <<cacheVars, segVars, pureVars>>

CGetStats(t) ==
    /\ pc[t] = "get_stats"
    /\ cret' = [cret EXCEPT ![t] =
                   [name |-> "get_stats", key |-> NoKey,
                    ret |-> Some(GetStats(ccache, cstats))]]
    /\ pc' = [pc EXCEPT ![t] = "unlock"]
    /\ UNCHANGED <<ccache, cstats, cnow, lock, op, snap, mine, cops>>
    /\ UNCHANGED <<cacheVars, segVars, pureVars>>

\* the with-statement is left and the call returns
CRelease(t) ==
    /\ pc[t] = "unlock"
    /\ lock' = 0
    /\ pc' = [pc EXCEPT ![t] = "idle"]
    /\ UNCHANGED <<ccache, cstats, cnow, op, snap, cret, mine, cops>>
    /\ UNCHANGED <<cacheVars, segVars, pureVars>>

NextConc ==
    \/ CTick
    \/ \E t \in Threads, url \in Urls,
          name \in {"get", "invalidate", "clear", "get_stats"} : CCall(t, name, url)
    \/ \E t \in Threads, url \in Urls, content \in ConcContents : CCallSet(t, url, content)
    \/ \E t \in Threads : CAcquire(t)
    \/ \E t \in Threads : CSweep(t)
    \/ \E t \in Threads : CLookup(t)
    \/ \E t \in Threads : CDecompress(t)
    \/ \E t \in Threads : CEvict(t)
    \/ \E t \in Threads : CStore(t)
    \/ \E t \in Threads : CInvalidate(t)
    \/ \E t \in Threads : CClear(t)
    \/ \E t \in Threads : CGetStats(t)
    \/ \E t \in Threads : CRelease(t)

SpecConc == InitConc /\ [][NextConc]_vars

-----------------------------------------------------------------------------
(* ExtractionService: documents                                             *)
(*                                                                         *)
(* A document is the sequence of its elements in document order; parent    *)
(* is the index of the parent element, 0 for a child of <body>.  A text is *)
(* a sequence of tokens; class is the token list BeautifulSoup gives.      *)

Elem(tag, parent, class, text) ==
    [tag |-> tag, parent |-> parent, class |-> class, id |-> "",
     data_tabs |-> <<>>, text |-> text, src |-> "", alt |-> <<>>]

\* str.lower() on the attribute values that occur
Lower(str) ==
    CASE str = "Sidebar" -> "sidebar"
      [] str = "Tab-Content" -> "tab-content"
      [] str = "Blog" -> "blog"
      [] str = "API Guide" -> "api guide"
      [] str = "K" -> "k"
      [] str = "J" -> "j"
      [] OTHER -> str

\* the keywords that occur in a (lower-case) attribute value
KeywordsIn(str) ==
    CASE str = "sidebar" -> {"sidebar"}
      [] str = "comments" -> {"comment", "comments"}
      [] str = "pullquote" -> {"pull", "pullquote"}
      [] str = "tab-content" -> {"tab-content"}
      [] str = "tabbed" -> {"tabbed"}
      [] str = "tabbed-content" -> {"tabbed"}
      [] str = "article" -> {"article"}
      [] str = "blog" -> {"blog"}
      [] str = "api guide" -> {"api", "guide"}
      [] OTHER -> {}

\* keyword in " ".join(classes).lower()
ClassStrHas(classes, keywords) ==
    \E i \in 1..Len(classes) : KeywordsIn(Lower(classes[i])) \cap keywords # {}

\* whitespace-only text tokens
IsBlank(token) == token \in {" ", "\n"}

PullKeywords == {"pull", "pullquote", "highlight"}

ClassKeywords == {"nav", "navigation", "sidebar", "side-bar", "related", "trending",
                  "menu", "comment", "comments", "disqus", "discourse", "replies"}

IdKeywords == {"nav", "sidebar", "menu", "related", "trending", "comment",
               "comments", "disqus", "discourse"}

\* e is a proper descendant of a
RECURSIVE IsDescendant(_, _, _)
IsDescendant(d, e, a) ==
    /\ e # 0
    /\ \/ d[e].parent = a
       \/ IsDescendant(d, d[e].parent, a)

\* a and its descendants, ascending = document order
Subtree(d, a) == { e \in 1..Len(d) : e = a \/ IsDescendant(d, e, a) }

\* element.find_parent(tag): the nearest proper ancestor with that tag, or 0
RECURSIVE FindParent(_, _, _)
FindParent(d, e, tag) ==
    IF d[e].parent = 0 THEN 0
    ELSE IF d[d[e].parent].tag = tag THEN d[e].parent
    ELSE FindParent(d, d[e].parent, tag)

\* the members of a set of indices in ascending order
RECURSIVE Ascending(_)
Ascending(S) ==
    IF S = {} THEN <<>>
    ELSE LET m == CHOOSE x \in S : \A y \in S : x <= y
         IN  <<m>> \o Ascending(S \ {m})

RECURSIVE ConcatTexts(_, _)
ConcatTexts(d, order) ==
    IF order = <<>> THEN <<>>
    ELSE d[Head(order)].text \o ConcatTexts(d, Tail(order))

\* element.get_text(): the text of the element and of what is left below it
GetText(d, gone, e) == ConcatTexts(d, Ascending(Subtree(d, e) \ gone))

\* strip=True: the whitespace-only pieces are left out
Strip(text) == SelectSeq(text, LAMBDA tok : ~IsBlank(tok))

\* get_text() of every element of the tree as it stands
Texts(d, gone) == [x \in 1..Len(d) |-> GetText(d, gone, x)]

-----------------------------------------------------------------------------
(* ExtractionService: noise filter, tab containers, element classifier *)

IsNoiseHere(node) ==
    \/ node.tag = "nav"
    \/ node.tag = "aside" /\ ~ClassStrHas(node.class, PullKeywords)
    \/ ClassStrHas(node.class, ClassKeywords)
    \/ KeywordsIn(Lower(node.id)) \cap IdKeywords # {}

\* _is_navigation_or_sidebar: walk from the element up to the body
RECURSIVE IsNavigationOrSidebar(_, _)
IsNavigationOrSidebar(d, current) ==
    IF IsNoiseHere(d[current]) THEN TRUE
    ELSE IF d[current].parent = 0 THEN FALSE
    ELSE IsNavigationOrSidebar(d, d[current].parent)

\* _is_inside_tabbed_content: walk from the element up to the body
RECURSIVE IsInsideTabbedContent(_, _)
IsInsideTabbedContent(d, current) ==
    IF ClassStrHas(d[current].class, {"tabbed", "tab-content"}) THEN TRUE
    ELSE IF d[current].data_tabs # <<>> /\ d[current].data_tabs # <<"">> THEN TRUE
    ELSE IF d[current].parent = 0 THEN FALSE
    ELSE IsInsideTabbedContent(d, d[current].parent)

\* _is_pull_quote
IsPullQuote(d, e) ==
    \/ ClassStrHas(d[e].class, PullKeywords)
    \/ /\ d[e].parent # 0
       /\ d[d[e].parent].tag = "aside"
       /\ ClassStrHas(d[d[e].parent].class, PullKeywords)

\* characters: \s and \d of the pattern, on the characters that occur
Whitespace == {" ", "\t"}

DigitOf(c) ==
    CASE c = "0" -> 0 [] c = "1" -> 1 [] c = "2" -> 2 [] c = "3" -> 3 [] c = "4" -> 4
      [] c = "5" -> 5 [] c = "6" -> 6 [] c = "7" -> 7 [] c = "8" -> 8 [] OTHER -> 9

\* int(match.group(2))
RECURSIVE IntOf(_)
IntOf(digits) ==
    IF digits = <<>> THEN 0
    ELSE 10 * IntOf(SubSeq(digits, 1, Len(digits) - 1)) + DigitOf(digits[Len(digits)])

\* the length of the longest run of characters of a class starting at i
RECURSIVE RunLength(_, _, _)
RunLength(line, i, class) ==
    IF i > Len(line) THEN 0
    ELSE IF line[i] \notin class THEN 0
    ELSE 1 + RunLength(line, i + 1, class)

\* the rest of the pattern once \s* took k characters and \d+ took m
MatchAfter(line, k, m) ==
    IF /\ m >= 1
       /\ Len(line) >= k + m + 2
       /\ line[k + m + 1] \in {".", ":"}
       /\ line[k + m + 2] \in Whitespace
    THEN [matched |-> TRUE, indent |-> SubSeq(line, 1, k),
          number |-> IntOf(SubSeq(line, k + 1, k + m)),
          rest |-> SubSeq(line, k + m + 3, Len(line))]
    ELSE [matched |-> FALSE, indent |-> <<>>, number |-> 0, rest |-> <<>>]

MatchDigits(line, k) == MatchAfter(line, k, RunLength(line, k + 1,
              {"0", "1", "2", "3", "4", "5", "6", "7", "8", "9"}))

\* pattern.match(line) for ^(\s*)(\d+)[.:]\s(.*)$: both runs are greedy, and
\* giving back a character of either never lets the rest match
LineNumber(line) == MatchDigits(line, RunLength(line, 1, Whitespace))

\* code_text.split("\n")
RECURSIVE SplitLines(_, _)
SplitLines(text, line) ==
    IF text = <<>> THEN <<line>>
    ELSE IF Head(text) = "\n" THEN <<line>> \o SplitLines(Tail(text), <<>>)
    ELSE SplitLines(Tail(text), Append(line, Head(text)))

\* "\n".join(lines)
RECURSIVE JoinLines(_)
JoinLines(lines) ==
    IF lines = <<>> THEN <<>>
    ELSE IF Len(lines) = 1 THEN lines[1]
    ELSE lines[1] \o <<"\n">> \o JoinLines(Tail(lines))

\* the numbers of the matching lines, in order of appearance
RECURSIVE MatchedNumbers(_)
MatchedNumbers(lines) ==
    IF lines = <<>> THEN <<>>
    ELSE (IF LineNumber(Head(lines)).matched THEN <<LineNumber(Head(lines)).number>>
          ELSE <<>>) \o MatchedNumbers(Tail(lines))

CleanedLine(line, match) == IF match.matched THEN match.indent \o match.rest ELSE line

\* the decisions of _remove_line_numbers once the lines are matched
StripNoDensityCheck(code_text, lines, numbers) ==
    IF Len(numbers) < 2
    THEN code_text
    ELSE IF \E i \in 1..(Len(numbers) - 1) : numbers[i + 1] # numbers[i] + 1
    THEN code_text
    ELSE JoinLines([i \in 1..Len(lines) |-> CleanedLine(lines[i], LineNumber(lines[i]))])

StripNumbered(code_text, lines, numbers) ==
    IF Len(numbers) < 2 \/ 2 * Len(numbers) < Len(lines)
    THEN code_text
    ELSE IF \E i \in 1..(Len(numbers) - 1) : numbers[i + 1] # numbers[i] + 1
    THEN code_text
    ELSE JoinLines([i \in 1..Len(lines) |-> CleanedLine(lines[i], LineNumber(lines[i]))])

StripLines(code_text, lines) == StripNumbered(code_text, lines, MatchedNumbers(lines))

\* _remove_line_numbers
RemoveLineNumbers(code_text) == StripLines(code_text, SplitLines(code_text, <<>>))

NoMeta == [keys |-> {}, level |-> 0, list_type |-> "", items |-> <<>>,
           is_pull_quote |-> FALSE, language |-> "", src |-> "", alt |-> <<>>,
           caption |-> <<>>]

NoBlock == [type |-> "none", text |-> <<>>, metadata |-> NoMeta, element |-> 0]

ContentBlock(type, text, metadata, e) ==
    [type |-> type, text |-> text, metadata |-> metadata, element |-> e]

\* element.find(tag): the first of the descendants with the given tag, or 0
FindFirst(d, below, tag) ==
    IF \A x \in below : d[x].tag # tag THEN 0
    ELSE CHOOSE x \in below : d[x].tag = tag /\ \A y \in below : d[y].tag = tag => x <= y

HeadingLevel(tag) ==
    CASE tag = "h1" -> 1 [] tag = "h2" -> 2 [] tag = "h3" -> 3
      [] tag = "h4" -> 4 [] tag = "h5" -> 5 [] OTHER -> 6

\* cls.replace("language-", "") for the class tokens that start with it
LanguageOf(token) ==
    CASE token = "language-python" -> "python"
      [] token = "language-bash" -> "bash"
      [] OTHER -> ""

FirstLanguage(classes) ==
    LET hits == { i \in 1..Len(classes) : LanguageOf(classes[i]) # "" }
    IN  IF hits = {} THEN ""
        ELSE LanguageOf(classes[CHOOSE i \in hits : \A j \in hits : i <= j])

RECURSIVE RenderItems(_, _, _)
RenderItems(items, i, ordered) ==
    IF i > Len(items) THEN <<>>
    ELSE (IF ordered THEN <<"n. ">> ELSE <<"bullet ">>) \o items[i]
         \o (IF i < Len(items) THEN <<"\n">> ELSE <<>>)
         \o RenderItems(items, i + 1, ordered)

\* the list items of a ul/ol: its li children, stripped, the empty ones dropped
ListItems(d, e, texts, below) ==
    SelectSeq([i \in 1..Cardinality({ x \in below : d[x].parent = e /\ d[x].tag = "li" }) |->
                  Strip(texts[Ascending({ x \in below :
                                            d[x].parent = e /\ d[x].tag = "li" })[i]])],
              LAMBDA item : item # <<>>)

ListBlock(tag, items, e) ==
    IF items = <<>> THEN NoBlock
    ELSE ContentBlock("list", RenderItems(items, 1, tag = "ol"),
             [NoMeta EXCEPT !.keys = {"list_type", "items"},
                 !.list_type = IF tag = "ul" THEN "unordered" ELSE "ordered",
                 !.items = items], e)

CodeBlock(raw, language, e) ==
    IF \A i \in 1..Len(raw) : IsBlank(raw[i]) THEN NoBlock
    ELSE ContentBlock("code", RemoveLineNumbers(raw),
             IF language = "" THEN NoMeta
             ELSE [NoMeta EXCEPT !.keys = {"language"}, !.language = language], e)

FigureBlock(d, e, img, caption) ==
    IF img = 0 THEN NoBlock
    ELSE IF d[img].src = "" THEN NoBlock
    ELSE ContentBlock("image", IF caption # <<>> THEN caption ELSE d[img].alt,
             [NoMeta EXCEPT !.keys = {"src", "alt", "caption", "width", "height"},
                 !.src = d[img].src, !.alt = d[img].alt, !.caption = caption], e)

\* the branches of _element_to_block; texts = get_text() of every element,
\* below = the descendants of e left in the tree; NoBlock stands for None
BlockFrom(d, e, texts, below) ==
    IF d[e].tag \in {"h1", "h2", "h3", "h4", "h5", "h6"} THEN
        IF Strip(texts[e]) = <<>> THEN NoBlock
        ELSE ContentBlock("heading", Strip(texts[e]),
                 [NoMeta EXCEPT !.keys = {"level"}, !.level = HeadingLevel(d[e].tag)], e)
    ELSE IF d[e].tag = "p" THEN
        IF Strip(texts[e]) = <<>> THEN NoBlock
        ELSE ContentBlock("paragraph", Strip(texts[e]), NoMeta, e)
    ELSE IF d[e].tag \in {"ul", "ol"} THEN
        ListBlock(d[e].tag, ListItems(d, e, texts, below), e)
    ELSE IF d[e].tag = "blockquote" THEN
        IF Strip(texts[e]) = <<>> THEN NoBlock
        ELSE ContentBlock("quote", Strip(texts[e]),
                 [NoMeta EXCEPT !.keys = {"is_pull_quote"},
                     !.is_pull_quote = IsPullQuote(d, e)], e)
    ELSE IF d[e].tag \in {"pre", "code"} THEN
        CodeBlock(texts[e],
                  IF d[e].tag = "pre" /\ FindFirst(d, below, "code") # 0
                  THEN FirstLanguage(d[FindFirst(d, below, "code")].class) ELSE "",
                  e)
    ELSE IF d[e].tag = "img" THEN
        IF d[e].src = "" THEN NoBlock
        ELSE ContentBlock("image", d[e].alt,
                 [NoMeta EXCEPT !.keys = {"src", "alt", "width", "height"},
                     !.src = d[e].src, !.alt = d[e].alt], e)
    ELSE IF d[e].tag = "figure" THEN
        FigureBlock(d, e, FindFirst(d, below, "img"),
                    IF FindFirst(d, below, "figcaption") = 0 THEN <<>>
                    ELSE Strip(texts[FindFirst(d, below, "figcaption")]))
    ELSE NoBlock

\* _element_to_block without the id
ElementToBlock(d, gone, e) ==
    BlockFrom(d, e, Texts(d, gone), (Subtree(d, e) \ gone) \ {e})

-----------------------------------------------------------------------------
(* ExtractionService: _parse_html_to_blocks *)

\* tabbed_containers: the divs whose class matches the pattern, in document
\* order, then the divs carrying data-tabs, in document order
\* (the pattern is re.compile(r"(?:tab|tabbed)[-_]content", re.I))
IsTabClassDiv(node) ==
    /\ node.tag = "div"
    /\ \E i \in 1..Len(node.class) :
          Lower(node.class[i]) \in {"tab-content", "tabbed-content"}

IsDataTabsDiv(node) == node.tag = "div" /\ node.data_tabs # <<>>

TabbedContainers(d) ==
    Ascending({ e \in 1..Len(d) : IsTabClassDiv(d[e]) })
    \o Ascending({ e \in 1..Len(d) : IsDataTabsDiv(d[e]) })

\* if block: blocks.append(block)
Appended(block) == IF block = NoBlock THEN <<>> ELSE <<block>>

\* the block of one pre/code of a tab container, built from its pre ancestor
TabBlock(d, gone, parent_pre) ==
    IF parent_pre = 0 THEN NoBlock ELSE ElementToBlock(d, gone, parent_pre)

\* the blocks of one tab container: one per pre/code descendant that has a
\* pre ancestor
RECURSIVE TabBlocks(_, _, _)
TabBlocks(d, gone, tab_blocks) ==
    IF tab_blocks = <<>> THEN <<>>
    ELSE Appended(TabBlock(d, gone, FindParent(d, Head(tab_blocks), "pre")))
         \o TabBlocks(d, gone, Tail(tab_blocks))

\* tab_container.find_all(["pre", "code"]); nothing once the container is gone
InsideTab(d, gone, c) ==
    IF c \in gone THEN {}
    ELSE { e \in Subtree(d, c) \ (gone \cup {c}) : d[e].tag \in {"pre", "code"} }

MergeStep(here, rest) == [blocks |-> here \o rest.blocks, gone |-> rest.gone]

\* the loop over the tab containers; gone = elements already decomposed
RECURSIVE MergeTabs(_, _, _)
MergeTabs(d, containers, gone) ==
    IF containers = <<>> THEN [blocks |-> <<>>, gone |-> gone]
    ELSE MergeStep(TabBlocks(d, gone, Ascending(InsideTab(d, gone, Head(containers)))),
                   MergeTabs(d, Tail(containers),
                             gone \cup Subtree(d, Head(containers))))

\* the continue conditions of the per-element loop
Skipped(d, e) ==
    \/ d[e].tag = "img" /\ FindParent(d, e, "figure") # 0
    \/ IsNavigationOrSidebar(d, e)
    \/ IsInsideTabbedContent(d, e)

\* the per-element loop
RECURSIVE ElementPass(_, _, _)
ElementPass(d, gone, elements) ==
    IF elements = <<>> THEN <<>>
    ELSE Appended(IF Skipped(d, Head(elements)) THEN NoBlock
                  ELSE ElementToBlock(d, gone, Head(elements)))
         \o ElementPass(d, gone, Tail(elements))

AfterTabs(d, merged) ==
    merged.blocks
    \o ElementPass(d, merged.gone,
                   Ascending({ e \in 1..Len(d) \ merged.gone :
                                 d[e].tag \in {"p", "h1", "h2", "h3", "h4", "h5", "h6",
                                               "ul", "ol", "blockquote", "pre",
                                               "img", "figure"} }))

ParseHtmlToBlocks(d) == AfterTabs(d, MergeTabs(d, TabbedContainers(d), {}))

-----------------------------------------------------------------------------
(* ExtractionService: metadata and extract() *)

\* _extract_pull_quotes_from_html on the raw document
PullQuoteIn(d, e, text) ==
    IF d[e].tag = "blockquote" /\ IsPullQuote(d, e) /\ text # <<>> THEN <<text>> ELSE <<>>

RECURSIVE PullQuotesFromHtml(_, _)
PullQuotesFromHtml(d, e) ==
    IF e > Len(d) THEN <<>>
    ELSE PullQuoteIn(d, e, Strip(GetText(d, {}, e))) \o PullQuotesFromHtml(d, e + 1)

\* _extract_pull_quotes on the block list
ExtractPullQuotes(content_blocks) ==
    LET flagged == SelectSeq(content_blocks,
                       LAMBDA b : b.type = "quote" /\ b.metadata.is_pull_quote)
    IN  [i \in 1..Len(flagged) |-> flagged[i].text]

\* list(set(...)): the orders in which the elements of a set can be listed
Orderings(S) ==
    { f \in [1..Cardinality(S) -> S] : \A i, j \in 1..Cardinality(S) : f[i] = f[j] => i = j }

\* uuid.uuid4(): the n-th identifier drawn from the generator state of a run
Uuid4(seed, n) == <<seed, n>>

NoMetadata == [keys |-> {}, pull_quotes |-> <<>>]

\* parsed_blocks is len(blocks) as extract() saw it before its emptiness check
NotRun == [status |-> "not_run", reason |-> "", parsed_blocks |-> 0,
           content_blocks |-> <<>>, metadata |-> NoMetadata]

\* _extract_metadata, the pull-quote part: order is the order list(set()) gives
ExtractMetadata(content_blocks, pull_quotes_from_html, order) ==
    IF order = <<>> THEN NoMetadata
    ELSE [keys |-> {"pull_quotes"}, pull_quotes |-> order]

AllPullQuotesBlocksOnly(content_blocks, pull_quotes_from_html) ==
    SeqToSet(ExtractPullQuotes(content_blocks))

AllPullQuotes(content_blocks, pull_quotes_from_html) ==
    SeqToSet(pull_quotes_from_html \o ExtractPullQuotes(content_blocks))

\* the blocks with their ids
WithIds(parsed, seed) ==
    [i \in 1..Len(parsed) |->
        [id |-> Uuid4(seed, i), type |-> parsed[i].type, text |-> parsed[i].text,
         metadata |-> parsed[i].metadata, element |-> parsed[i].element]]

\* the result extract() would build from whatever was parsed
Returned(parsed, pull_quotes_from_html, seed, order) ==
    [status |-> "ok", reason |-> "", parsed_blocks |-> Len(parsed),
     content_blocks |-> WithIds(parsed, seed),
     metadata |-> ExtractMetadata(WithIds(parsed, seed), pull_quotes_from_html, order)]

\* variant of extract() without the check for an empty block list
ExtractResultUnchecked(parsed, pull_quotes_from_html, seed, order) ==
    Returned(parsed, pull_quotes_from_html, seed, order)

\* extract() after the parsing of the raw and of the cleaned HTML
ExtractResult(parsed, pull_quotes_from_html, seed, order) ==
    IF parsed = <<>>
    THEN [status |-> "ExtractionError", reason |-> "No content blocks extracted",
          parsed_blocks |-> 0, content_blocks |-> <<>>, metadata |-> NoMetadata]
    ELSE Returned(parsed, pull_quotes_from_html, seed, order)

-----------------------------------------------------------------------------
(* ExtractionService: the documents explored *)

Img(parent, src, alt) == [Elem("img", parent, <<>>, <<>>) EXCEPT !.src = src, !.alt = alt]

\* content of a top-level unit; parent 0 is the unit's wrapper (or the body)
ContentOf(name) ==
    CASE name = "p" -> <<Elem("p", 0, <<>>, <<"a">>)>>
      [] name = "p_blank" -> <<Elem("p", 0, <<>>, <<" ">>)>>
      [] name = "h1" -> <<Elem("h1", 0, <<>>, <<"T">>)>>
      [] name = "pre_code" -> <<Elem("pre", 0, <<>>, <<>>),
                                Elem("code", 1, <<"language-python">>, <<"x">>)>>
      [] name = "pull_quote" -> <<Elem("blockquote", 0, <<"pullquote">>, <<"q">>)>>
      [] name = "pull_quote_r" -> <<Elem("blockquote", 0, <<"pullquote">>, <<"r">>)>>
      [] name = "quote" -> <<Elem("blockquote", 0, <<>>, <<"q">>)>>
      [] name = "img" -> <<Img(0, "u", <<"i">>)>>
      [] name = "img_no_alt" -> <<Img(0, "u", <<>>)>>
      [] name = "figure" -> <<Elem("figure", 0, <<>>, <<>>), Img(1, "u", <<>>),
                              Elem("figcaption", 1, <<>>, <<"c">>)>>
      [] name = "ul" -> <<Elem("ul", 0, <<>>, <<>>), Elem("li", 1, <<>>, <<"a">>)>>
      [] name = "quote_p" -> <<Elem("blockquote", 0, <<>>, <<>>),
                               Elem("p", 1, <<>>, <<"a">>)>>
      [] name = "tabs" -> <<Elem("div", 0, <<"Tab-Content">>, <<>>),
                            Elem("pre", 1, <<>>, <<>>),
                            Elem("code", 2, <<"language-bash">>, <<"y">>)>>
      [] OTHER -> <<[Elem("div", 0, <<>>, <<>>) EXCEPT !.id = "comments"],
                    Elem("p", 1, <<>>, <<"a">>)>>

\* the element wrapped around a unit's content
WrapperOf(name) ==
    CASE name = "nav" -> Elem("nav", 0, <<>>, <<>>)
      [] name = "aside" -> Elem("aside", 0, <<>>, <<>>)
      [] name = "aside_pull" -> Elem("aside", 0, <<"pullquote">>, <<>>)
      [] name = "sidebar" -> Elem("div", 0, <<"Sidebar">>, <<>>)
      [] name = "tab_content" -> Elem("div", 0, <<"tab-content">>, <<>>)
      [] name = "data_tabs" -> [Elem("div", 0, <<>>, <<>>) EXCEPT !.data_tabs = <<"x">>]
      [] name = "tabbed" -> Elem("div", 0, <<"tabbed">>, <<>>)
      [] OTHER -> Elem("article", 0, <<>>, <<>>)

Units ==
    { [wrapper |-> "none", content |-> c] :
        c \in {"p", "p_blank", "h1", "pre_code", "pull_quote", "pull_quote_r",
               "quote", "img", "img_no_alt", "figure", "ul", "quote_p", "tabs",
               "comments_p"} }
    \cup { [wrapper |-> w, content |-> c] :
              w \in {"nav", "aside", "aside_pull", "sidebar", "tab_content",
                     "data_tabs", "tabbed"},
              c \in {"p", "pre_code", "pull_quote"} }
    \cup { [wrapper |-> "nav", content |-> "tabs"] }

\* the elements of one unit placed after offset elements
UnitElems(u, offset) ==
    LET content == ContentOf(u.content)
        base == IF u.wrapper = "none" THEN offset ELSE offset + 1
        top == IF u.wrapper = "none" THEN 0 ELSE offset + 1
        placed == [i \in 1..Len(content) |->
                      [content[i] EXCEPT !.parent =
                          IF content[i].parent = 0 THEN top
                          ELSE content[i].parent + base]]
    IN  (IF u.wrapper = "none" THEN <<>> ELSE <<WrapperOf(u.wrapper)>>) \o placed

RECURSIVE Flatten(_, _)
Flatten(units, sofar) ==
    IF units = <<>> THEN sofar
    ELSE Flatten(Tail(units), sofar \o UnitElems(Head(units), Len(sofar)))

\* what reader-mode cleaning may hand over for a raw document: the same
\* elements, or the same with the aside wrappers discarded
Unwrapped(units) ==
    [i \in 1..Len(units) |->
        IF units[i].wrapper \in {"aside", "aside_pull"}
        THEN [units[i] EXCEPT !.wrapper = "none"] ELSE units[i]]

\* <nav><p>Trending</p></nav><article><h1>T</h1><p>Body text.</p></article>
NavArticleDoc ==
    <<Elem("nav", 0, <<>>, <<>>), Elem("p", 1, <<>>, <<"Trending">>),
      Elem("article", 0, <<>>, <<>>), Elem("h1", 3, <<>>, <<"T">>),
      Elem("p", 3, <<>>, <<"Body text.">>)>>

RunIds == {"first", "second"}

InitSeg ==
    /\ \/ \E n \in 1..MaxUnits : \E units \in [1..n -> Units] :
             \E cleaned \in {units, Unwrapped(units)} :
                /\ rawDoc = Flatten(units, <<>>)
                /\ doc = Flatten(cleaned, <<>>)
       \/ rawDoc = NavArticleDoc /\ doc = NavArticleDoc
    /\ runs = [r \in RunIds |-> NotRun]
    /\ IdleCache
    /\ IdleConc
    /\ IdlePure

\* extract() once both documents are parsed
ExtractParsed(r, parsed, pull_quotes_from_html) ==
    /\ runs[r] = NotRun
    /\ r = "second" => runs["first"] # NotRun
    /\ \E seed \in {"s1", "s2"} :
          \E order \in Orderings(AllPullQuotes(parsed, pull_quotes_from_html)) :
             runs' = [runs EXCEPT ![r] =
                         ExtractResult(parsed, pull_quotes_from_html, seed, order)]
    /\ UNCHANGED <<rawDoc, doc>>
    /\ UNCHANGED <<cacheVars, concVars, pureVars>>

\* one call of extract() on the document
Extract(r) ==
    ExtractParsed(r, ParseHtmlToBlocks(doc), PullQuotesFromHtml(rawDoc, 1))

NextSeg == \E r \in RunIds : Extract(r)

SpecSeg == InitSeg /\ [][NextSeg]_vars


-----------------------------------------------------------------------------
(* ExtractionService._remove_line_numbers called on code texts (SpecLines) *)

\* the lines the code texts are made of: plain ("x"), a float literal
\* ("1.x"), indented and numbered with a colon (" 11: x"), numbered ("9. x",
\* "10. x") and numbered twice ("9. 9. x", "10. 10. x"); the numbers 9, 10,
\* 11 follow each other
CodeLines ==
    { <<"x">>, <<"1", ".", "x">>, <<" ", "1", "1", ":", " ", "x">>,
      <<"9", ".", " ", "x">>, <<"1", "0", ".", " ", "x">>,
      <<"9", ".", " ", "9", ".", " ", "x">>,
      <<"1", "0", ".", " ", "1", "0", ".", " ", "x">> }

InitLines ==
    /\ \E n \in 1..MaxLines : \E lines \in [1..n -> CodeLines] :
          codeText = JoinLines(lines)
    /\ passes = <<>>
    /\ IdleCache
    /\ IdleConc
    /\ IdleSeg
    /\ IdleMore
    /\ IdleHead
    /\ IdleMeta
    /\ IdleStream

\* one call of _remove_line_numbers, on the text or on the previous result
Remove(code_text) ==
    /\ passes' = Append(passes, RemoveLineNumbers(code_text))
    /\ UNCHANGED codeText
    /\ UNCHANGED <<cacheVars, concVars, segVars, moreVars, headVars, metaVars, streamVars>>

RemoveFirst == passes = <<>> /\ Remove(codeText)

RemoveAgain == Len(passes) = 1 /\ Remove(passes[1])

NextLines == RemoveFirst \/ RemoveAgain

SpecLines == InitLines /\ [][NextLines]_vars


-----------------------------------------------------------------------------
(* ExtractionService._build_heading_structure (SpecHead) *)

\* a node is the position of its heading block, the root is 0; children maps
\* every node to the list of its children, stack is the list of open nodes
RootOnly(n) == [children |-> [x \in 0..n |-> <<>>], stack |-> <<0>>]

\* stack[-1].get("level", 0)
LevelOfNode(content_blocks, node) ==
    IF node = 0 THEN 0 ELSE content_blocks[node].level

\* variant of the loop that closes every open heading
PoppedToRoot(content_blocks, stack, level) == <<0>>

\* while len(stack) > 1 and stack[-1].get("level", 0) >= level: stack.pop()
RECURSIVE Popped(_, _, _)
Popped(content_blocks, stack, level) ==
    IF Len(stack) > 1 /\ LevelOfNode(content_blocks, stack[Len(stack)]) >= level
    THEN Popped(content_blocks, SubSeq(stack, 1, Len(stack) - 1), level)
    ELSE stack

\* stack[-1]["children"].append(node); stack.append(node)
Attached(built, stack, i) ==
    [children |-> [built.children EXCEPT ![stack[Len(stack)]] = Append(@, i)],
     stack |-> Append(stack, i)]

\* the loop body for block i
HeadingStep(content_blocks, built, i) ==
    IF content_blocks[i].type = "heading"
    THEN Attached(built, Popped(content_blocks, built.stack, content_blocks[i].level), i)
    ELSE built

\* the loop over the first i blocks
RECURSIVE HeadingLoop(_, _)
HeadingLoop(content_blocks, i) ==
    IF i = 0 THEN RootOnly(Len(content_blocks))
    ELSE HeadingStep(content_blocks, HeadingLoop(content_blocks, i - 1), i)

\* _build_heading_structure: the children of the root and of every heading
BuildHeadingStructure(content_blocks) ==
    HeadingLoop(content_blocks, Len(content_blocks)).children

BlockKinds ==
    { [type |-> "paragraph", level |-> 0] }
    \cup { [type |-> "heading", level |-> l] : l \in 1..MaxLevel }

InitHead ==
    /\ \E n \in 1..MaxBlocks : headingBlocks \in [1..n -> BlockKinds]
    /\ structure = <<>>
    /\ IdleCache
    /\ IdleConc
    /\ IdleSeg
    /\ IdleMore
    /\ IdleLines
    /\ IdleMeta
    /\ IdleStream

\* one call of _build_heading_structure
BuildHeadings ==
    /\ structure = <<>>
    /\ structure' = <<BuildHeadingStructure(headingBlocks)>>
    /\ UNCHANGED headingBlocks
    /\ UNCHANGED <<cacheVars, concVars, segVars, moreVars, lineVars, metaVars, streamVars>>

SpecHead == InitHead /\ [][BuildHeadings]_vars


-----------------------------------------------------------------------------
(* ExtractionService._extract_metadata: structured data, article type,       *)
(* author, date and tags (SpecMeta)                                          *)

\* A JSON value as the heuristics look at it: its Python type t, its text v
\* (strings and numbers) and its items (lists).  "absent" is a missing key.
Json(t, v, items) == [t |-> t, v |-> v, items |-> items]

Absent == Json("absent", "", <<>>)

JStr(v) == Json("str", v, <<>>)

\* the keys of a JSON object the heuristics read; author_name is
\* data["author"]["name"] and is absent unless author is an object
NoFields == [type |-> Absent, author |-> Absent, author_name |-> Absent,
             datePublished |-> Absent, keywords |-> Absent]

\* the first <script type="application/ld+json">: none in the page, or one
\* with no text (.string is None), with text json.loads rejects, with text
\* nested deeper than the interpreter's recursion limit, with a JSON value
\* that is no object, or with an object
NoScript == [kind |-> "absent", data |-> NoFields]

\* the scripts explored: none, the four that hold no object, and the objects
\* with each key missing, well typed, or of a type the heuristics do not expect
Scripts ==
    {NoScript}
    \cup { [kind |-> k, data |-> NoFields] : k \in {"empty", "invalid", "deep", "list"} }
    \cup { [kind |-> "dict",
            data |-> [type |-> t, author |-> a[1], author_name |-> a[2],
                      datePublished |-> d, keywords |-> k]] :
             t \in { Absent, JStr("NewsArticle"), JStr("BlogPosting"),
                     JStr("TechArticle"),
                     Json("list", "", <<JStr("TechArticle")>>) },
             a \in { <<Absent, Absent>>, <<JStr("A"), Absent>>,
                     <<Json("list", "", <<Json("dict", "", <<>>)>>), Absent>>,
                     <<Json("dict", "", <<>>), Absent>>,
                     <<Json("dict", "", <<>>), JStr("N")>>,
                     <<Json("dict", "", <<>>), Json("num", "7", <<>>)>> },
             d \in { Absent, JStr("2024-01-20"), Json("num", "2024", <<>>) },
             k \in { Absent, JStr("k,J"),
                     Json("list", "", <<JStr("j"), Json("num", "5", <<>>)>>),
                     Json("num", "5", <<>>) } }

\* what the technical-article detector counts: <pre> holding a <code>, <code>
\* outside any <pre>, the <title> text ("" when there is no <title>) and
\* the h2/h3/h4 elements
DetectorInputs ==
    { [pre_code |-> 0, standalone_code |-> 0, title |-> "", headings |-> 0],
      [pre_code |-> 2, standalone_code |-> 1, title |-> "", headings |-> 0],
      [pre_code |-> 2, standalone_code |-> 0, title |-> "API Guide", headings |-> 4],
      [pre_code |-> 0, standalone_code |-> 2, title |-> "API Guide", headings |-> 3],
      [pre_code |-> 1, standalone_code |-> 0, title |-> "News", headings |-> 4] }

\* the original HTML: the ld+json script, the content of <meta
\* property="og:type">, of the author and date <meta>, the comma-separated
\* pieces of <meta name="keywords"> ("" and <<>> when the tag is missing),
\* and what the detector counts
Pages ==
    { [json_ld |-> s, og_type |-> og, author_meta |-> am, date_meta |-> dm,
       keywords_meta |-> km, counts |-> c] :
        s \in Scripts, og \in {"", "article", "Blog", "website"},
        am \in {"", "M"}, dm \in {"", "D"}, km \in {<<>>, <<"k", "K">>},
        c \in DetectorInputs }

\* json_ld.string or ""
OrEmpty(script) ==
    IF script.kind = "empty" THEN [script EXCEPT !.kind = "blank"] ELSE script

\* json.loads(text): the exception it raises ("" when it returns), and the
\* value it returns
JsonLoads(script) ==
    [raised |-> CASE script.kind = "empty" -> "TypeError"
                  [] script.kind \in {"blank", "invalid"} -> "JSONDecodeError"
                  [] script.kind = "deep" -> "RecursionError"
                  [] OTHER -> "",
     isdict |-> script.kind = "dict",
     data   |-> script.data]

\* except (TypeError, json.JSONDecodeError, ValueError)
DecodeErrors == {"TypeError", "JSONDecodeError", "ValueError"}

\* what leaves a try block whose handler catches `caught`
Uncaught(raised, caught) == IF raised \in caught THEN "" ELSE raised

\* the Open Graph branch of _detect_article_type
OpenGraphType(og_type) ==
    IF og_type = "" THEN ""
    ELSE IF "blog" \in KeywordsIn(Lower(og_type)) THEN "blog"
    ELSE IF "article" \in KeywordsIn(Lower(og_type)) THEN "news"
    ELSE ""

\* _detect_article_type with the result of its json.loads: "" is None
ArticleTypeFrom(p, loaded) ==
    IF loaded.raised = "" /\ loaded.isdict /\ loaded.data.type = JStr("NewsArticle")
    THEN [raised |-> "", value |-> "news"]
    ELSE IF loaded.raised = "" /\ loaded.isdict
            /\ loaded.data.type = JStr("BlogPosting")
    THEN [raised |-> "", value |-> "blog"]
    ELSE IF Uncaught(loaded.raised, DecodeErrors) # ""
    THEN [raised |-> Uncaught(loaded.raised, DecodeErrors), value |-> ""]
    ELSE [raised |-> "", value |-> OpenGraphType(p.og_type)]

DetectArticleType(p) ==
    IF p.json_ld.kind = "absent"
    THEN [raised |-> "", value |-> OpenGraphType(p.og_type)]
    ELSE ArticleTypeFrom(p, JsonLoads(OrEmpty(p.json_ld)))

\* the part of _detect_technical_article after the structured data
CountsAreTechnical(c) ==
    \/ c.pre_code + c.standalone_code >= 3
    \/ /\ c.title # ""
       /\ KeywordsIn(Lower(c.title))
             \cap {"api", "documentation", "guide", "tutorial", "reference",
                   "sdk", "library"} # {}
       /\ c.headings >= 4

TechnicalFrom(p, loaded) ==
    IF loaded.raised = "" /\ loaded.isdict /\ loaded.data.type = JStr("TechArticle")
    THEN [raised |-> "", value |-> TRUE]
    ELSE IF Uncaught(loaded.raised, DecodeErrors) # ""
    THEN [raised |-> Uncaught(loaded.raised, DecodeErrors), value |-> FALSE]
    ELSE [raised |-> "", value |-> CountsAreTechnical(p.counts)]

DetectTechnicalArticle(p) ==
    IF p.json_ld.kind = "absent"
    THEN [raised |-> "", value |-> CountsAreTechnical(p.counts)]
    ELSE TechnicalFrom(p, JsonLoads(OrEmpty(p.json_ld)))

\* Python truth of a value: None, "", 0 and the empty list are false
Truthy(j) ==
    CASE j.t = "absent" -> FALSE
      [] j.t = "str" -> j.v # ""
      [] j.t = "num" -> j.v # "0"
      [] j.t = "list" -> j.items # <<>>
      [] OTHER -> TRUE

\* the author of _extract_metadata: the <meta> content, else the JSON-LD
\* author; `except Exception` swallows whatever json.loads raises
AuthorFrom(p) ==
    IF p.author_meta # "" THEN JStr(p.author_meta)
    ELSE IF p.json_ld.kind = "absent" THEN Absent
    ELSE IF JsonLoads(p.json_ld).raised # "" \/ ~JsonLoads(p.json_ld).isdict
    THEN Absent
    ELSE IF p.json_ld.data.author.t = "dict" THEN p.json_ld.data.author_name
    ELSE IF p.json_ld.data.author.t = "str" THEN p.json_ld.data.author
    ELSE Absent

\* the date of _extract_metadata: the <meta> content, else the JSON-LD
\* datePublished; `except Exception` swallows whatever json.loads raises
DateFrom(p) ==
    IF p.date_meta # "" THEN JStr(p.date_meta)
    ELSE IF p.json_ld.kind = "absent" THEN Absent
    ELSE IF JsonLoads(p.json_ld).raised # "" \/ ~JsonLoads(p.json_ld).isdict
    THEN Absent
    ELSE p.json_ld.data.datePublished

\* str.split(","): the pieces of the keyword strings of the model
SplitCommas(str) ==
    CASE str = "k,J" -> <<"k", "J">>
      [] OTHER -> <<str>>

RECURSIVE AddTags(_, _)
\* the loops of _extract_tags: append the pieces not seen yet, compared in
\* lower case
AddTags(tags, pieces) ==
    IF pieces = <<>> THEN tags
    ELSE IF Head(pieces) # ""
            /\ \A i \in 1..Len(tags) : Lower(tags[i]) # Lower(Head(pieces))
    THEN AddTags(Append(tags, Head(pieces)), Tail(pieces))
    ELSE AddTags(tags, Tail(pieces))

\* the strings of a JSON list
RECURSIVE StringsOf(_)
StringsOf(items) ==
    IF items = <<>> THEN <<>>
    ELSE IF Head(items).t = "str" THEN <<Head(items).v>> \o StringsOf(Tail(items))
    ELSE StringsOf(Tail(items))

KeywordPieces(keywords) ==
    CASE keywords.t = "list" -> StringsOf(keywords.items)
      [] keywords.t = "str" -> SplitCommas(keywords.v)
      [] OTHER -> <<>>

TagsFrom(p, tags, loaded) ==
    IF Uncaught(loaded.raised, DecodeErrors) # ""
    THEN [raised |-> Uncaught(loaded.raised, DecodeErrors), value |-> <<>>]
    ELSE IF loaded.raised = "" /\ loaded.isdict
    THEN [raised |-> "", value |-> AddTags(tags, KeywordPieces(loaded.data.keywords))]
    ELSE [raised |-> "", value |-> tags]

\* _extract_tags: <meta name="keywords">, then the JSON-LD keywords
ExtractTags(p) ==
    IF p.json_ld.kind = "absent"
    THEN [raised |-> "", value |-> AddTags(<<>>, p.keywords_meta)]
    ELSE TagsFrom(p, AddTags(<<>>, p.keywords_meta), JsonLoads(OrEmpty(p.json_ld)))

NotExtracted ==
    [status |-> "not_run", error |-> "",
     metadata |-> [article_type |-> "", author |-> Absent,
                   date_published |-> Absent, tags |-> <<>>]]

\* the exception leaves _extract_metadata
Raised(error) == [NotExtracted EXCEPT !.status = "raised", !.error = error]

\* if is_technical and not article_type: article_type = "technical"
TypeOrTechnical(article_type, is_technical) ==
    IF is_technical /\ article_type = "" THEN "technical" ELSE article_type

\* the keys of the metadata that depend on the page; a key that is not set
\* has the empty value
MetadataWith(p, article_type, tags) ==
    IF tags.raised # "" THEN Raised(tags.raised)
    ELSE [status |-> "returned", error |-> "",
          metadata |-> [article_type |-> article_type,
                        author |-> IF Truthy(AuthorFrom(p)) THEN AuthorFrom(p)
                                   ELSE Absent,
                        date_published |-> IF Truthy(DateFrom(p)) THEN DateFrom(p)
                                           ELSE Absent,
                        tags |-> tags.value]]

MetadataFrom(p, detected, technical) ==
    IF detected.raised # "" THEN Raised(detected.raised)
    ELSE IF technical.raised # "" THEN Raised(technical.raised)
    ELSE MetadataWith(p, TypeOrTechnical(detected.value, technical.value),
                      IF TypeOrTechnical(detected.value, technical.value) = "blog"
                      THEN ExtractTags(p)
                      ELSE [raised |-> "", value |-> <<>>])

\* _extract_metadata on the soup of a page
ExtractPageMetadata(p) ==
    MetadataFrom(p, DetectArticleType(p), DetectTechnicalArticle(p))

InitMeta ==
    /\ page \in Pages
    /\ meta = NotExtracted
    /\ IdleCache
    /\ IdleConc
    /\ IdleSeg
    /\ IdleMore
    /\ IdleLines
    /\ IdleHead
    /\ IdleStream

\* one call of _extract_metadata
ExtractPage ==
    /\ meta = NotExtracted
    /\ meta' = ExtractPageMetadata(page)
    /\ UNCHANGED page
    /\ UNCHANGED <<cacheVars, concVars, segVars, moreVars, lineVars, headVars, streamVars>>

SpecMeta == InitMeta /\ [][ExtractPage]_vars


-----------------------------------------------------------------------------
(* stream_translation.event_generator (SpecStream) *)

DataEvent(block_id, tokens_used) ==
    [event |-> "message", block_id |-> block_id, code |-> "",
     tokens_used |-> tokens_used, total_tokens |-> 0,
     blocks_translated |-> 0, blocks_failed |-> 0]

ErrorEvent(code, block_id) ==
    [event |-> "error", block_id |-> block_id, code |-> code,
     tokens_used |-> 0, total_tokens |-> 0,
     blocks_translated |-> 0, blocks_failed |-> 0]

DoneEvent(total_tokens, translated_count, failed_count) ==
    [event |-> "done", block_id |-> "", code |-> "",
     tokens_used |-> 0, total_tokens |-> total_tokens,
     blocks_translated |-> translated_count, blocks_failed |-> failed_count]

InitStream ==
    /\ \E n \in 1..MaxStreamBlocks : request \in [1..n -> {"block-1", "block-2"}]
    /\ gen = [pc |-> "loop", i |-> 1, total_tokens |-> 0,
              translated_count |-> 0, failed_count |-> 0]
    /\ events = <<>>
    /\ calls = <<>>
    /\ connected = TRUE
    /\ IdleCache
    /\ IdleConc
    /\ IdleSeg
    /\ IdleMore
    /\ IdleLines
    /\ IdleHead
    /\ IdleMeta

\* the generator is about to handle a block and the client is still there
AtBlock == gen.pc = "loop" /\ gen.i <= Len(request) /\ connected

\* translate_block returned: a data event, the counters advance
BlockTranslated(tokens_used) ==
    /\ AtBlock
    /\ events' = Append(events, DataEvent(request[gen.i], tokens_used))
    /\ gen' = [gen EXCEPT !.i = @ + 1, !.total_tokens = @ + tokens_used,
                          !.translated_count = @ + 1]
    /\ calls' = Append(calls, "returned")
    /\ UNCHANGED <<request, connected>>
    /\ UNCHANGED <<cacheVars, concVars, segVars, moreVars, lineVars, headVars, metaVars>>

\* asyncio.wait_for gave up after timeout_seconds
BlockTimedOut ==
    /\ AtBlock
    /\ events' = Append(events, ErrorEvent("TIMEOUT", request[gen.i]))
    /\ gen' = [gen EXCEPT !.i = @ + 1, !.failed_count = @ + 1]
    /\ calls' = Append(calls, "TimeoutError")
    /\ UNCHANGED <<request, connected>>
    /\ UNCHANGED <<cacheVars, concVars, segVars, moreVars, lineVars, headVars, metaVars>>

\* translate_block raised a LuminoteException with this code
BlockFailed(code) ==
    /\ AtBlock
    /\ events' = Append(events, ErrorEvent(code, request[gen.i]))
    /\ gen' = [gen EXCEPT !.i = @ + 1, !.failed_count = @ + 1]
    /\ calls' = Append(calls, "LuminoteException")
    /\ UNCHANGED <<request, connected>>
    /\ UNCHANGED <<cacheVars, concVars, segVars, moreVars, lineVars, headVars, metaVars>>

\* translate_block raised anything else (the ContentBlock it builds rejects
\* an empty translation): the outer handler sends one error and returns
BlockRaisedOther ==
    /\ AtBlock
    /\ events' = Append(events, ErrorEvent("INTERNAL_ERROR", ""))
    /\ gen' = [gen EXCEPT !.pc = "returned"]
    /\ calls' = Append(calls, "Exception")
    /\ UNCHANGED <<request, connected>>
    /\ UNCHANGED <<cacheVars, concVars, segVars, moreVars, lineVars, headVars, metaVars>>

\* request.is_disconnected() answered true at the head of the loop
SeesDisconnect ==
    /\ gen.pc = "loop" /\ gen.i <= Len(request) /\ ~connected
    /\ gen' = [gen EXCEPT !.pc = "returned"]
    /\ UNCHANGED <<request, events, calls, connected>>
    /\ UNCHANGED <<cacheVars, concVars, segVars, moreVars, lineVars, headVars, metaVars>>

\* the loop is over: the done event
SendDone ==
    /\ gen.pc = "loop" /\ gen.i > Len(request)
    /\ events' = Append(events, DoneEvent(gen.total_tokens, gen.translated_count,
                                          gen.failed_count))
    /\ gen' = [gen EXCEPT !.pc = "returned"]
    /\ UNCHANGED <<request, calls, connected>>
    /\ UNCHANGED <<cacheVars, concVars, segVars, moreVars, lineVars, headVars, metaVars>>

\* the client goes away
Disconnect ==
    /\ gen # <<>> /\ gen.pc = "loop" /\ connected
    /\ connected' = FALSE
    /\ UNCHANGED <<request, gen, events, calls>>
    /\ UNCHANGED <<cacheVars, concVars, segVars, moreVars, lineVars, headVars, metaVars>>

NextStream ==
    \/ \E tokens_used \in 0..MaxTokens : BlockTranslated(tokens_used)
    \/ BlockTimedOut
    \/ \E code \in {"TRANSLATION_ERROR", "RATE_LIMIT"} : BlockFailed(code)
    \/ BlockRaisedOther
    \/ SeesDisconnect
    \/ SendDone
    \/ Disconnect

SpecStream == InitStream /\ [][NextStream]_vars


-----------------------------------------------------------------------------
(* VersioningService: save_version and its pruning (SpecVer) *)

\* "c" is a document URL whose SHA-256 starts with the same 16 hex digits as
\* that of "a"
DocumentUrls == {"a", "b", "c"}

\* _get_url_hash: the first 16 of the 64 hex digits of the SHA-256
GetUrlHash(url) == IF url = "b" THEN "h2" ELSE "h1"

\* get_versions, as the set it sorts: the readable files of the url's hash
GetVersions(fs, document_url) ==
    { v \in fs : GetUrlHash(v.document_url) = GetUrlHash(document_url) }

\* versions[:keep_count] of a list sorted by created_at descending: sorted()
\* is stable, so versions of equal created_at stay in the order glob gave
NewestFirst(versions, keep_count) ==
    { kept \in SUBSET versions :
        /\ Cardinality(kept) = keep_count
        /\ \A k \in kept : \A d \in versions \ kept : k.created_at >= d.created_at }

\* prune_old_versions: the sets of files it can unlink
PruneOldVersions(fs, document_url, keep_count) ==
    IF Cardinality(GetVersions(fs, document_url)) <= keep_count
    THEN {{}}
    ELSE { GetVersions(fs, document_url) \ kept :
             kept \in NewestFirst(GetVersions(fs, document_url), keep_count) }

InitVer ==
    /\ files = {}
    /\ vnow = 1
    /\ saves = <<>>
    /\ deleted = {}
    /\ IdleCache
    /\ IdleConc
    /\ IdleSeg
    /\ IdleLines
    /\ IdleHead
    /\ IdleMeta
    /\ IdleStream
    /\ IdleKey
    /\ IdleApi

\* the version save_version builds: a fresh uuid4, the clock as it reads it
NewVersion(document_url, created_at) ==
    [version_id |-> Len(saves) + 1, document_url |-> document_url,
     created_at |-> created_at]

\* save_version, the clock having advanced by tick since the previous call
SaveVersion(document_url, tick) ==
    /\ Len(saves) < MaxSaves
    /\ vnow' = vnow + tick
    /\ saves' = Append(saves, NewVersion(document_url, vnow'))
    /\ \E unlinked \in PruneOldVersions(files \cup {NewVersion(document_url, vnow')},
                                         document_url, KeepCount) :
          /\ files' = (files \cup {NewVersion(document_url, vnow')}) \ unlinked
          /\ deleted' = unlinked
    /\ UNCHANGED <<keyVars, apiVars>>
    /\ UNCHANGED <<cacheVars, concVars, segVars, lineVars, headVars, metaVars,
                   streamVars>>

NextVer ==
    \E document_url \in DocumentUrls : \E tick \in {0, 1} :
        SaveVersion(document_url, tick)

SpecVer == InitVer /\ [][NextVer]_vars

-----------------------------------------------------------------------------
(* CachingService._make_cache_key called on urls of every length (SpecKey) *)

InitKey ==
    /\ keyUrl \in [name : {"b", "c"}, len : 1..MaxUrlLength]
    /\ cacheKey = None
    /\ IdleCache
    /\ IdleConc
    /\ IdleSeg
    /\ IdleLines
    /\ IdleHead
    /\ IdleMeta
    /\ IdleStream
    /\ IdleVer
    /\ IdleApi

\* one call of _make_cache_key
MakeKey ==
    /\ cacheKey = None
    /\ cacheKey' = MakeCacheKey(keyUrl)
    /\ UNCHANGED keyUrl
    /\ UNCHANGED <<verVars, apiVars>>
    /\ UNCHANGED <<cacheVars, concVars, segVars, lineVars, headVars, metaVars,
                   streamVars>>

SpecKey == InitKey /\ [][MakeKey]_vars

-----------------------------------------------------------------------------
(* extract_content: the extract endpoint over the module's caching_service *)
(* and extraction_service (SpecApi)                                        *)

\* what extraction_service.extract does for a request: it returns a content
\* (identified as in Contents) or raises one of its three exceptions
ExtractOutcomes ==
    [raised : {""}, content : {2, 3}]
    \cup [raised : {"InvalidURLError", "URLFetchError", "ExtractionError"},
          content : {0}]

InitApi ==
    /\ cache = <<>> /\ stats = ZeroStats /\ now = 0 /\ nops = 0
    /\ last = NoCall /\ prev = Brief(NoCall)
    /\ lastSet = <<>> /\ lastUse = <<>>
    /\ inflight = {}
    /\ reqs = <<>>
    /\ IdleConc
    /\ IdleSeg
    /\ IdleLines
    /\ IdleHead
    /\ IdleMeta
    /\ IdleStream
    /\ IdleVer
    /\ IdleKey

\* a request that ended: seen is the cache its get found, pre the cache
\* before its last step, post the cache when it ended; began is the number
\* of requests that had ended when it called get
Ended(url, began, cache_hit, extracted, outcome, seen, pre, post) ==
    [url |-> url, began |-> began, cache_hit |-> cache_hit,
     extracted |-> extracted, raised |-> outcome.raised,
     content |-> outcome.content, seen |-> seen, pre |-> pre, post |-> post]

\* extract_content up to the await: caching_service.get(url); a hit builds
\* the response, a miss calls extraction_service.extract and awaits it
BeginRequest(url, got) ==
    /\ Len(reqs) + Cardinality(inflight) < MaxRequests
    /\ cache' = got.cache
    /\ stats' = got.stats
    /\ IF got.ret # None
       THEN /\ reqs' = Append(reqs, Ended(url, Len(reqs), TRUE, 0,
                                          [raised |-> "", content |-> got.ret[1]],
                                          cache, cache, got.cache))
            /\ UNCHANGED inflight
       ELSE /\ inflight' = inflight \cup
                   {[n |-> Len(reqs) + Cardinality(inflight) + 1, url |-> url,
                     began |-> Len(reqs), seen |-> cache]}
            /\ UNCHANGED reqs
    /\ UNCHANGED <<now, nops, last, prev, lastSet, lastUse>>
    /\ UNCHANGED <<verVars, keyVars>>
    /\ UNCHANGED <<concVars, segVars, lineVars, headVars, metaVars, streamVars>>

EndRequestStoresAnyway(r, outcome, put) ==
    /\ r \in inflight
    /\ inflight' = inflight \ {r}
    /\ cache' = put.cache
    /\ stats' = put.stats
    /\ reqs' = Append(reqs, Ended(r.url, r.began, FALSE, 1, outcome, r.seen,
                                  cache, cache'))
    /\ UNCHANGED <<now, nops, last, prev, lastSet, lastUse>>
    /\ UNCHANGED <<verVars, keyVars>>
    /\ UNCHANGED <<concVars, segVars, lineVars, headVars, metaVars, streamVars>>

\* extract_content after the await: extract returned and the content is
\* handed to caching_service.set, or extract raised and the handler re-raises
EndRequest(r, outcome, put) ==
    /\ r \in inflight
    /\ inflight' = inflight \ {r}
    /\ IF outcome.raised = ""
       THEN /\ cache' = put.cache
            /\ stats' = put.stats
       ELSE UNCHANGED <<cache, stats>>
    /\ reqs' = Append(reqs, Ended(r.url, r.began, FALSE, 1, outcome, r.seen,
                                  cache, cache'))
    /\ UNCHANGED <<now, nops, last, prev, lastSet, lastUse>>
    /\ UNCHANGED <<verVars, keyVars>>
    /\ UNCHANGED <<concVars, segVars, lineVars, headVars, metaVars, streamVars>>

NextApi ==
    \/ Tick
    \/ \E url \in Urls :
          BeginRequest(url, GetLocked(cache, stats, MakeCacheKey(url), now, now))
    \/ \E r \in inflight : \E outcome \in ExtractOutcomes :
          EndRequest(r, outcome,
                     SetLocked(cache, stats, MakeCacheKey(r.url),
                               CompressContent(outcome.content),
                               now + TtlSeconds, now, now))

SpecApi == InitApi /\ [][NextApi]_vars

-----------------------------------------------------------------------------
(* Properties of one CachingService used by one caller (Spec) *)

CountKey(c, k) == Cardinality({ i \in 1..Len(c) : c[i].key = k })

\* C1: between calls, the sizes of the stored entries sum to at most
\* max_storage_bytes, also after an overwriting set and after a set of an
\* entry larger than the quota.
C1_StorageWithinQuota == GetCurrentStorageBytes(cache) <= MaxStorageBytes

\* C2: a get never returns the content of an entry whose expires_at is at or
\* before the clock; expires_at of every stored entry is the time of the last
\* set of its key plus ttl_seconds (gets do not extend it), so a get issued
\* ttl_seconds or more after that set is a miss.
C2_ExpiredNeverReturned ==
    /\ \A i \in 1..Len(cache) :
          cache[i].expires_at = lastSet[cache[i].key] + TtlSeconds
    /\ (last.op = "get" /\ last.ret # None) =>
          /\ HasKey(last.pre, last.key)
          /\ EntryOf(last.pre, last.key).expires_at > last.t2
          /\ last.t2 < lastSet[last.key] + TtlSeconds
    /\ (last.op = "get" /\ last.t2 >= lastSet[last.key] + TtlSeconds) =>
          last.ret = None

\* C2 witness: an entry that was read successfully after its write is still
\* physically stored when a later get finds it expired and reports a miss.
C2_Witness ==
    /\ last.op = "get" /\ last.ret = None
    /\ HasKey(last.pre, last.key)
    /\ EntryOf(last.pre, last.key).expires_at <= last.t2
    /\ EntryOf(last.pre, last.key).last_accessed > lastSet[last.key]

Projected(c, k, size_bytes) == GetCurrentStorageBytes(DelKey(c, k)) + size_bytes

\* c without the n least recently used entries
WithoutOldest(c, n) ==
    LET gone == { SortedItems(c)[i].key : i \in 1..n }
    IN  SelectSeq(c, LAMBDA e : e.key \notin gone)

\* C4: when the projected size of a set exceeds the quota, the evicted entries
\* are exactly the shortest prefix, in ascending last_accessed order, whose
\* removal makes the projected size fit (all of them when the new entry alone
\* is larger than the quota); last_accessed is the time of the entry's write
\* or latest successful get; every evicted entry was used no later than every
\* surviving one.
C4_EvictsShortestLruPrefix ==
    /\ \A i \in 1..Len(cache) : cache[i].last_accessed = lastUse[cache[i].key]
    /\ (/\ last.op = "set" /\ last.how = "stored"
        /\ Projected(last.swept, last.key, last.val) > MaxStorageBytes)
       => /\ \E n \in 0..Len(last.swept) :
                /\ last.evicted = [i \in 1..n |-> SortedItems(last.swept)[i].key]
                /\ \/ Projected(WithoutOldest(last.swept, n), last.key, last.val)
                         <= MaxStorageBytes
                   \/ n = Len(last.swept)
                /\ \A m \in 0..(n - 1) :
                      Projected(WithoutOldest(last.swept, m), last.key, last.val)
                         > MaxStorageBytes
          /\ \A i \in 1..Len(last.swept), j \in 1..Len(cache) :
                (last.swept[i].key \in SeqToSet(last.evicted))
                   => last.swept[i].last_accessed <= cache[j].last_accessed

\* the stored payload of k cannot be decompressed when get(k) is called
PayloadUnreadable(call) ==
    /\ call.op = "get"
    /\ HasKey(call.pre, call.key)
    /\ ~EntryOf(call.pre, call.key).compressed_data.valid

\* C5 as stated: a get of a key whose payload cannot be decompressed returns
\* None, leaves the key unstored and leaves every other entry unchanged.
C5_CorruptIsMissOthersUnchanged ==
    PayloadUnreadable(last)
    => /\ last.ret = None
       /\ ~HasKey(cache, last.key)
       /\ cache = DelKey(last.pre, last.key)

\* C5 amended: a get of a key whose payload cannot be decompressed returns
\* None and leaves the key unstored; every other entry that had not expired
\* when the get swept the cache is unchanged (and keeps its position), while
\* the other entries that had expired are removed by the sweep.
C5_CorruptIsMissLiveOthersUnchanged ==
    PayloadUnreadable(last)
    => /\ last.ret = None
       /\ ~HasKey(cache, last.key)
       /\ cache = DelKey(CleanupExpired(last.pre, last.t1), last.key)

\* C5 witness: decompression failed in a get and another entry is still stored.
C5_Witness ==
    /\ PayloadUnreadable(last) /\ last.how = "corrupt"
    /\ Len(cache) >= 1

\* the call that returned last is a get, or a set that got as far as the lock
TookLock(call) ==
    \/ call.op = "get"
    \/ call.op = "set" /\ call.how = "stored"

\* the entry, as it was stored before the call, is still stored
Remains(entry) ==
    \E i \in 1..Len(cache) :
        cache[i].key = entry.key /\ cache[i].expires_at = entry.expires_at

\* the entries stored before the call whose expires_at the call saw passed
\* and that are gone
RemovedForExpiry(call) ==
    { i \in 1..Len(call.pre) :
        call.pre[i].expires_at <= call.t2 /\ ~Remains(call.pre[i]) }

\* C24: when a get or a set returns, no entry whose expires_at had passed
\* when the call took the lock is still stored, whatever its key, and the
\* expirations counter has grown by the number of entries removed for expiry.
C24_SweepBeforeAnythingElse ==
    TookLock(last) =>
        /\ \A i \in 1..Len(last.pre) :
              last.pre[i].expires_at <= last.t0 => ~Remains(last.pre[i])
        /\ stats.expirations
              = last.prestats.expirations + Cardinality(RemovedForExpiry(last))

\* C24 witness: a call on one key removed an expired entry of another key
C24_Witness ==
    /\ TookLock(last)
    /\ \E i \in 1..Len(last.pre) :
          /\ last.pre[i].key # last.key
          /\ last.pre[i].expires_at <= last.t0
          /\ ~Remains(last.pre[i])
    /\ stats.expirations > last.prestats.expirations

\* the entries of c other than the one of key k, in their order
Others(c, k) == SelectSeq(c, LAMBDA e : e.key # k)

\* C25: invalidate(k) returns true exactly when an entry for k is stored and
\* then removes it; every other entry and the four counters are unchanged.
\* An invalidate(k) right after an invalidate(k) returns false, and a get(k)
\* right after an invalidate(k) is a miss.
C25_InvalidateRemovesOnlyItsKey ==
    /\ last.op = "invalidate" =>
          /\ last.ret = Some(\E i \in 1..Len(last.pre) : last.pre[i].key = last.key)
          /\ \A i \in 1..Len(cache) : cache[i].key # last.key
          /\ cache = Others(last.pre, last.key)
          /\ stats = last.prestats
    /\ (last.op = "invalidate" /\ prev.op = "invalidate" /\ prev.key = last.key)
          => last.ret = Some(FALSE)
    /\ (last.op = "get" /\ prev.op = "invalidate" /\ prev.key = last.key)
          => /\ last.ret = None
             /\ stats.misses = last.prestats.misses + 1
             /\ stats.hits = last.prestats.hits

\* C25 witness: an invalidate returned true and left another entry stored
C25_Witness ==
    /\ last.op = "invalidate"
    /\ last.ret = Some(TRUE)
    /\ Len(last.pre) = 2
    /\ Len(cache) = 1

\* a get that follows an invalidate of its key
C25_WitnessGet ==
    /\ last.op = "get" /\ prev.op = "invalidate" /\ prev.key = last.key
    /\ last.pre # <<>>

\* C26: a set whose compression or serialization fails returns without
\* raising and leaves the cache as it was: the entries, expired ones
\* included, their order and the counters are those before the call, and a
\* get of the key right after it misses when the key was not stored before.
C26_FailedSetChangesNothing ==
    /\ (last.op = "set" /\ last.how = "compress_failed") =>
          /\ last.ret = None
          /\ cache = last.pre
          /\ stats = last.prestats
    /\ (/\ last.op = "get" /\ prev.op = "set" /\ prev.how = "compress_failed"
        /\ prev.key = last.key /\ ~prev.had)
          => last.ret = None

\* C26 witness: the failing set found an expired entry and left it stored
C26_Witness ==
    /\ last.op = "set" /\ last.how = "compress_failed"
    /\ \E i \in 1..Len(cache) : cache[i].expires_at <= last.t0

\* a get right after a failing set of its key, which was not stored
C26_WitnessGet ==
    /\ last.op = "get" /\ prev.op = "set" /\ prev.how = "compress_failed"
    /\ prev.key = last.key /\ ~prev.had
    /\ last.pre # <<>>

\* C28: a get increments exactly one of hits and misses, by one: hits alone
\* when it returns content, misses alone when it returns None.
C28_GetCountsOnce ==
    last.op = "get" =>
        /\ (stats.hits + stats.misses) = (last.prestats.hits + last.prestats.misses) + 1
        /\ last.ret # None =>
              /\ stats.hits = last.prestats.hits + 1
              /\ stats.misses = last.prestats.misses
        /\ last.ret = None =>
              /\ stats.misses = last.prestats.misses + 1
              /\ stats.hits = last.prestats.hits

-----------------------------------------------------------------------------
(* Properties of one CachingService shared by threads (SpecConc) *)

InsideLock == {"sweep", "lookup", "decompress", "evict", "store",
               "invalidate", "clear", "get_stats", "unlock"}

\* the cache, counters and return value the call of thread t produces when it
\* runs alone on the state it found when it took the lock
RunAlone(t) ==
    LET c == snap[t].cache
        st == snap[t].stats
        o == op[t]
    IN  CASE o.name = "get" ->
               LET r == GetLocked(c, st, o.key, o.t1, o.t2)
               IN  [cache |-> r.cache, stats |-> r.stats, ret |-> r.ret]
          [] o.name = "set" ->
               LET r == SetLocked(c, st, o.key, o.compressed_data, o.expires_at,
                                  o.t1, o.t2)
               IN  [cache |-> r.cache, stats |-> r.stats, ret |-> r.ret]
          [] o.name = "invalidate" ->
               LET r == InvalidateLocked(c, o.key)
               IN  [cache |-> r.cache, stats |-> st, ret |-> r.ret]
          [] o.name = "clear" -> [cache |-> <<>>, stats |-> st, ret |-> None]
          [] OTHER -> [cache |-> c, stats |-> st, ret |-> Some(GetStats(c, st))]

-----------------------------------------------------------------------------
(* Properties of extraction (SpecSeg) *)

Finished(r) == runs[r].status = "ok"

\* C7: the blocks of a run are in document order: whenever a block precedes
\* another in the output, the element it was built from precedes the element
\* the other was built from in the cleaned document.
C7_BlocksInDocumentOrder ==
    \A r \in RunIds :
        \A i, j \in 1..Len(runs[r].content_blocks) :
            i < j => runs[r].content_blocks[i].element
                        < runs[r].content_blocks[j].element

\* C8: every emitted block, of every type, has non-empty text.
C8_EmittedTextNonEmpty ==
    \A r \in RunIds :
        \A i \in 1..Len(runs[r].content_blocks) :
            runs[r].content_blocks[i].text # <<>>

\* C9: two runs of extraction on the same raw and cleaned document give the
\* same block list (ids, types, text, metadata, order) and the same metadata
\* map, the order of pull_quotes included.
C9_RunsIdentical ==
    (runs["first"] # NotRun /\ runs["second"] # NotRun)
        => runs["first"] = runs["second"]

\* the element itself carries a navigation/sidebar/comments marker
NoiseMarked(node) ==
    \/ node.tag = "nav"
    \/ \E i \in 1..Len(node.class) :
          KeywordsIn(Lower(node.class[i])) \cap ClassKeywords # {}
    \/ KeywordsIn(Lower(node.id)) \cap IdKeywords # {}
    \/ /\ node.tag = "aside"
       /\ \A i \in 1..Len(node.class) :
             KeywordsIn(Lower(node.class[i])) \cap PullKeywords = {}

\* C10: the noise filter is true for an element exactly when the element or
\* one of its ancestors below the body is a nav, carries a noise keyword in
\* class or id, or is an aside without pull-quote markers; no emitted block
\* comes from an element for which the filter is true; and the nav/article
\* document yields exactly the heading and the article paragraph.
C10_NoiseNeverEmitted ==
    /\ \A e \in 1..Len(doc) :
          IsNavigationOrSidebar(doc, e)
             <=> \E a \in 1..Len(doc) :
                    (a = e \/ IsDescendant(doc, e, a)) /\ NoiseMarked(doc[a])
    /\ \A r \in RunIds :
          \A i \in 1..Len(runs[r].content_blocks) :
              ~IsNavigationOrSidebar(doc, runs[r].content_blocks[i].element)
    /\ \A r \in RunIds :
          (doc = NavArticleDoc /\ runs[r] # NotRun) =>
              /\ Finished(r)
              /\ [i \in 1..Len(runs[r].content_blocks) |->
                     <<runs[r].content_blocks[i].type,
                       runs[r].content_blocks[i].text>>]
                 = << <<"heading", <<"T">> >>, <<"paragraph", <<"Body text.">> >> >>

\* a blockquote of the cleaned document that carries a pull-quote class and
\* sits directly in a top-level <aside> without class, id or data-tabs
PullQuoteInPlainAside(e) ==
    /\ doc[e].tag = "blockquote"
    /\ ClassStrHas(doc[e].class, PullKeywords)
    /\ doc[e].parent # 0
    /\ doc[doc[e].parent].tag = "aside"
    /\ doc[doc[e].parent].class = <<>>
    /\ doc[doc[e].parent].id = ""
    /\ doc[doc[e].parent].data_tabs = <<>>
    /\ doc[doc[e].parent].parent = 0

BlocksOf(r, e) ==
    { i \in 1..Len(runs[r].content_blocks) : runs[r].content_blocks[i].element = e }

\* C11: in a returned result, a pullquote-class blockquote inside a plain
\* <aside> is emitted as exactly one quote block with is_pull_quote = TRUE and
\* its text is listed in metadata.pull_quotes.
C11_AsidePullQuoteEmitted ==
    \A r \in RunIds : \A e \in 1..Len(doc) :
        (Finished(r) /\ PullQuoteInPlainAside(e)) =>
            /\ Cardinality(BlocksOf(r, e)) = 1
            /\ \A i \in BlocksOf(r, e) :
                  /\ runs[r].content_blocks[i].type = "quote"
                  /\ runs[r].content_blocks[i].metadata.is_pull_quote
                  /\ \E j \in 1..Len(runs[r].metadata.pull_quotes) :
                        runs[r].metadata.pull_quotes[j] = runs[r].content_blocks[i].text

FlaggedQuoteTexts(r) ==
    { runs[r].content_blocks[i].text : i \in
        { j \in 1..Len(runs[r].content_blocks) :
            /\ runs[r].content_blocks[j].type = "quote"
            /\ runs[r].content_blocks[j].metadata.is_pull_quote } }

RawPullQuoteTexts == SeqToSet(PullQuotesFromHtml(rawDoc, 1))

\* C12: in a returned result, metadata.pull_quotes holds exactly the texts
\* that the raw-HTML detector found or that an emitted quote block flagged
\* is_pull_quote carries, each of them once.
C12_PullQuotesAreTheUnion ==
    \A r \in RunIds : Finished(r) =>
        /\ SeqToSet(runs[r].metadata.pull_quotes)
              = RawPullQuoteTexts \cup FlaggedQuoteTexts(r)
        /\ \A i, j \in 1..Len(runs[r].metadata.pull_quotes) :
              runs[r].metadata.pull_quotes[i] = runs[r].metadata.pull_quotes[j] => i = j

\* a result where one text comes from both sources and another from the raw
\* HTML only
C12_Witness ==
    \E r \in RunIds :
        /\ Finished(r)
        /\ RawPullQuoteTexts \cap FlaggedQuoteTexts(r) # {}
        /\ RawPullQuoteTexts \ FlaggedQuoteTexts(r) # {}
        /\ Len(runs[r].metadata.pull_quotes) = Cardinality(RawPullQuoteTexts)

\* a run whose segmentation gave no block ended in the error
NothingSegmented ==
    \A r \in RunIds :
        (runs[r] # NotRun /\ runs[r].parsed_blocks = 0) =>
            /\ runs[r].status = "ExtractionError"
            /\ runs[r].reason = "No content blocks extracted"

\* C16: when segmentation of the cleaned document yields no block, extract
\* raises ExtractionError with reason 'No content blocks extracted'; every
\* result it returns holds at least one block.
C16_NoBlocksIsAnError ==
    /\ NothingSegmented
    /\ \A r \in RunIds :
          runs[r].status = "ok" => Len(runs[r].content_blocks) >= 1

\* a run on a document with elements, none of which gives a block
C16_Witness ==
    \E r \in RunIds :
        /\ runs[r].status = "ExtractionError"
        /\ doc # <<>>

-----------------------------------------------------------------------------
(* Properties of the line-number stripper (SpecLines) *)

\* the matches of the lines of a text, line by line
MatchesOf(lines) == [i \in 1..Len(lines) |-> LineNumber(lines[i])]

Matching(matches) == { i \in 1..Len(matches) : matches[i].matched }

\* the matched numbers increase by one from each matching line to the next
Consecutive(matches) ==
    \A i, j \in Matching(matches) :
        (i < j /\ \A k \in Matching(matches) : ~(i < k /\ k < j)) =>
            matches[j].number = matches[i].number + 1

Qualifies(matches) ==
    /\ Cardinality(Matching(matches)) >= 2
    /\ 2 * Cardinality(Matching(matches)) >= Len(matches)
    /\ Consecutive(matches)

StrippedAsClaimed(input, output, lines, matches) ==
    /\ ~Qualifies(matches) => output = input
    /\ Qualifies(matches) =>
          /\ Len(SplitLines(output, <<>>)) = Len(lines)
          /\ \A i \in 1..Len(lines) :
                SplitLines(output, <<>>)[i]
                   = IF matches[i].matched THEN matches[i].indent \o matches[i].rest
                     ELSE lines[i]

MixedAndStripped(input, output, matches) ==
    /\ Qualifies(matches)
    /\ Cardinality(Matching(matches)) < Len(matches)
    /\ output # input

SparseAndKept(input, output, matches) ==
    /\ Cardinality(Matching(matches)) >= 2
    /\ Consecutive(matches)
    /\ 2 * Cardinality(Matching(matches)) < Len(matches)
    /\ output = input

\* a text with two consecutive numbers on fewer than half of its lines
C13_WitnessSparse ==
    /\ passes # <<>>
    /\ SparseAndKept(codeText, passes[1], MatchesOf(SplitLines(codeText, <<>>)))

\* C14: stripping is idempotent: a second call on the result of the first
\* returns that result unchanged.
C14_StripIdempotent == Len(passes) = 2 => passes[2] = passes[1]

-----------------------------------------------------------------------------
(* Properties of the heading structure (SpecHead) *)

IsChild(children, a, b) == \E k \in 1..Len(children[a]) : children[a][k] = b

\* b is below a: some chain of children leads from a to b (a chain visits
\* positions in increasing order)
RECURSIVE IsBelow(_, _, _)
IsBelow(children, a, b) ==
    \/ IsChild(children, a, b)
    \/ \E c \in (a + 1)..(b - 1) : IsChild(children, a, c) /\ IsBelow(children, c, b)

HeadingAt(i) == headingBlocks[i].type = "heading"

\* b1 before b2, L1 < L2, and no heading of level <= L1 between them
Covers(i, j) ==
    /\ i < j
    /\ HeadingAt(i) /\ HeadingAt(j)
    /\ headingBlocks[i].level < headingBlocks[j].level
    /\ \A k \in (i + 1)..(j - 1) :
          HeadingAt(k) => headingBlocks[k].level > headingBlocks[i].level

-----------------------------------------------------------------------------
(* Properties of the tab containers (SpecSeg) *)

\* a div taken by the tab pre-pass
IsTabContainer(node) == IsTabClassDiv(node) \/ IsDataTabsDiv(node)

\* the <pre> elements inside container c that hold a <code>
CodeInPre(c) ==
    { e \in Subtree(doc, c) \ {c} :
        /\ doc[e].tag = "pre"
        /\ \E x \in Subtree(doc, e) \ {e} : doc[x].tag = "code" }

\* the blocks of run r built from elements of the set
BlocksFrom(r, elements) ==
    { i \in 1..Len(runs[r].content_blocks) :
        runs[r].content_blocks[i].element \in elements }

\* the elements that follow container c in the document
Following(c) == { e \in 1..Len(doc) : e > c } \ Subtree(doc, c)

\* C19: for every tab container of the cleaned document, each <pre> holding
\* a <code> inside it gives exactly one block, a code block; no other element
\* inside the container gives a block; the container's blocks are in document
\* order and precede every block built from an element that follows the
\* container.
C19_TabCodeOnceAndFirst ==
    \A r \in RunIds : \A c \in 1..Len(doc) :
        (Finished(r) /\ IsTabContainer(doc[c])) =>
            /\ \A e \in CodeInPre(c) :
                  /\ Cardinality(BlocksOf(r, e)) = 1
                  /\ \A i \in BlocksOf(r, e) : runs[r].content_blocks[i].type = "code"
            /\ BlocksFrom(r, Subtree(doc, c)) = BlocksFrom(r, CodeInPre(c))
            /\ \A i, j \in BlocksFrom(r, CodeInPre(c)) :
                  runs[r].content_blocks[i].element < runs[r].content_blocks[j].element
                     => i < j
            /\ \A i \in BlocksFrom(r, CodeInPre(c)) :
                  \A j \in BlocksFrom(r, Following(c)) : i < j

\* the elements whose own text is part of the text of the i-th block of run r
Carries(r, i) ==
    { x \in Subtree(doc, runs[r].content_blocks[i].element) : doc[x].text # <<>> }

\* C29: no element gives its text to more than one block of a run, also when
\* a block candidate is nested inside another block candidate.
C29_TextInOneBlockOnly ==
    \A r \in RunIds :
        \A i, j \in 1..Len(runs[r].content_blocks) :
            i # j => Carries(r, i) \cap Carries(r, j) = {}

\* the elements the per-element pass visits
IsBlockCandidate(node) ==
    node.tag \in {"p", "h1", "h2", "h3", "h4", "h5", "h6", "ul", "ol",
                  "blockquote", "pre", "img", "figure"}

\* the element carries what the skip check looks for
HasSkipMark(node) ==
    \/ \E i \in 1..Len(node.class) :
          KeywordsIn(Lower(node.class[i])) \cap {"tabbed", "tab-content"} # {}
    \/ node.data_tabs \notin {<<>>, <<"">>}

\* the element lies in a container the tab pre-pass merged
InMergedContainer(e) ==
    \E c \in 1..Len(doc) : IsTabContainer(doc[c]) /\ e \in Subtree(doc, c)

\* the text of the element is part of a block of run r
Emitted(r, e) ==
    \E i \in 1..Len(runs[r].content_blocks) :
        e \in Subtree(doc, runs[r].content_blocks[i].element)

\* C30: the containers the skip check recognises are the containers the tab
\* pre-pass merges; a candidate the skip check answers true for lies in a
\* merged container; and a candidate that is not noise and would give a
\* block is part of an emitted block unless the merger emitted its content.
C30_SkipMatchesMerger ==
    \A r \in RunIds :
        runs[r] # NotRun =>
            /\ \A c \in 1..Len(doc) : HasSkipMark(doc[c]) <=> IsTabContainer(doc[c])
            /\ \A e \in 1..Len(doc) :
                  (IsBlockCandidate(doc[e]) /\ IsInsideTabbedContent(doc, e))
                     => InMergedContainer(e)
            /\ \A e \in 1..Len(doc) :
                  (/\ IsBlockCandidate(doc[e])
                   /\ ~IsNavigationOrSidebar(doc, e)
                   /\ ElementToBlock(doc, {}, e) # NoBlock)
                  => Emitted(r, e)

-----------------------------------------------------------------------------
(* Properties of the metadata of a page (SpecMeta) *)

\* the page whose JSON-LD object lacks one key
Without(p, key) ==
    CASE key = "type" -> [p EXCEPT !.json_ld.data.type = Absent]
      [] key = "author" -> [p EXCEPT !.json_ld.data.author = Absent,
                                     !.json_ld.data.author_name = Absent]
      [] key = "datePublished" -> [p EXCEPT !.json_ld.data.datePublished = Absent]
      [] OTHER -> [p EXCEPT !.json_ld.data.keywords = Absent]

\* the keys of the JSON-LD object whose value has a type the heuristic that
\* reads it does not expect: @type and datePublished are strings, an author
\* is a string or an object with a string name, keywords are a string or a list
UnexpectedKeys(d) ==
    { k \in {"type"} : d.type.t \notin {"absent", "str"} }
    \cup { k \in {"author"} :
             \/ d.author.t \notin {"absent", "str", "dict"}
             \/ d.author.t = "dict" /\ d.author_name.t \notin {"absent", "str"} }
    \cup { k \in {"datePublished"} : d.datePublished.t \notin {"absent", "str"} }
    \cup { k \in {"keywords"} : d.keywords.t \notin {"absent", "str", "list"} }

\* a script that holds no JSON object
HoldsNoObject(script) == script.kind \in {"empty", "invalid", "deep", "list"}

\* C17: whatever the ld+json script holds, _extract_metadata returns; a
\* script that holds no JSON object leaves the metadata as it is for the page
\* without the script, and a key of an unexpected type leaves it as it is
\* for the object without that key.
C17_StructuredDataNeverAborts ==
    meta # <<>> /\ meta # NotExtracted =>
        /\ meta.status = "returned"
        /\ HoldsNoObject(page.json_ld) =>
               meta = ExtractPageMetadata([page EXCEPT !.json_ld = NoScript])
        /\ \A k \in UnexpectedKeys(page.json_ld.data) :
               meta = ExtractPageMetadata(Without(page, k))

\* the article type by the stated precedence: structured data, then Open
\* Graph, then the detector
TypeByPrecedence(p) ==
    IF p.json_ld.kind = "dict" /\ p.json_ld.data.type = JStr("NewsArticle") THEN "news"
    ELSE IF p.json_ld.kind = "dict" /\ p.json_ld.data.type = JStr("BlogPosting")
    THEN "blog"
    ELSE IF p.json_ld.kind = "dict" /\ p.json_ld.data.type = JStr("TechArticle")
    THEN "technical"
    ELSE IF OpenGraphType(p.og_type) # "" THEN OpenGraphType(p.og_type)
    ELSE IF CountsAreTechnical(p.counts) THEN "technical"
    ELSE ""

\* C18: the article type of the returned metadata follows the precedence
\* structured-data @type, Open Graph type, technical-article detector; a
\* TechArticle is technical whatever the Open Graph type is.
C18_TypePrecedence ==
    meta # <<>> /\ meta.status = "returned" =>
        meta.metadata.article_type = TypeByPrecedence(page)

-----------------------------------------------------------------------------
(* Properties of the translation stream (SpecStream) *)

RECURSIVE TokensOfData(_)
\* the sum of tokens_used over the data events
TokensOfData(evs) ==
    IF evs = <<>> THEN 0
    ELSE (IF Head(evs).event = "message" THEN Head(evs).tokens_used ELSE 0)
         + TokensOfData(Tail(evs))

\* the generator has returned and the client never went away
StreamOver == gen # <<>> /\ gen.pc = "returned" /\ connected

\* C20: when the generator of a stream whose client stayed connected has
\* returned, the events are one per content block, in the order of the
\* blocks, a data event where translate_block returned and an error event
\* where it raised, followed by one done event, the last; the done event's
\* blocks_translated + blocks_failed is the number of blocks and its
\* total_tokens is the sum of tokens_used over the data events.
C20_OneEventPerBlockThenDone ==
    StreamOver =>
        /\ Len(events) = Len(request) + 1
        /\ \A k \in 1..Len(request) :
              /\ events[k].block_id = request[k]
              /\ events[k].event = IF calls[k] = "returned" THEN "message" ELSE "error"
        /\ events[Len(events)].event = "done"
        /\ events[Len(events)].blocks_translated + events[Len(events)].blocks_failed
              = Len(request)
        /\ events[Len(events)].total_tokens = TokensOfData(events)

\* translate_block did not return for the k-th block
FailedAt(k) == k \in 1..Len(calls) /\ calls[k] # "returned"

\* C21: a failure or a timeout while translating one block gives an error
\* event that carries the id of that block, and, the client staying
\* connected, the stream goes on: every block after it gets its own event and
\* the done event comes last.
C21_BlockErrorsIsolated ==
    \A k \in 1..Len(request) :
        FailedAt(k) =>
            /\ events[k].event = "error"
            /\ events[k].block_id = request[k]
            /\ StreamOver =>
                  /\ Len(events) = Len(request) + 1
                  /\ \A j \in (k + 1)..Len(request) : events[j].block_id = request[j]
                  /\ events[Len(events)].event = "done"

-----------------------------------------------------------------------------
(* Properties of the version store (SpecVer) *)

\* the versions of the files in fs that were saved for this document_url
VersionsFor(fs, document_url) == { v \in fs : v.document_url = document_url }

\* every version save_version has returned so far
Saved == { saves[i] : i \in 1..Len(saves) }

\* the stored versions of the url are at most 5 and none of its versions
\* that is gone was saved after one that is stored
NewestKept(document_url) ==
    /\ Cardinality(VersionsFor(files, document_url)) <= KeepCount
    /\ \A k \in VersionsFor(files, document_url) :
          \A d \in VersionsFor(Saved \ files, document_url) :
              k.version_id > d.version_id

\* C22: after every save_version(document_url, ...) at most 5 versions are
\* stored for document_url, they are the ones saved last for it, the one
\* just saved among them, and the call deleted no version of another document.
C22_FiveNewestKept ==
    saves # <<>> =>
        /\ NewestKept(saves[Len(saves)].document_url)
        /\ saves[Len(saves)] \in files
        /\ \A d \in deleted : d.document_url = saves[Len(saves)].document_url

-----------------------------------------------------------------------------
(* Properties of the cache key (SpecKey) *)

\* the key is the url string itself
IsUrlItself(key, url) ==
    key.kind = "url" /\ key.text = url.name /\ key.len = url.len

\* the key is 'url_hash:' followed by the 64 hex digits of the url's SHA-256
IsHashKey(key, url) ==
    /\ key.kind = "url_hash" /\ key.len = 73
    /\ key.text = [b |-> "sha256_b", c |-> "sha256_c"][url.name]

\* C23 as stated: the key of a url is the url itself when the url is shorter
\* than 200 characters and the 73-character hash key otherwise, so no key is
\* longer than 200 characters.
C23_KeyUnderThreshold ==
    cacheKey # None =>
        /\ keyUrl.len < 200 => IsUrlItself(cacheKey, keyUrl)
        /\ keyUrl.len >= 200 => IsHashKey(cacheKey, keyUrl)
        /\ cacheKey.len <= 200

\* C23 amended: the key of a url is the url itself when the url has at most
\* 200 characters and the 73-character hash key when it has more, so no key
\* is longer than 200 characters.
C23_KeyUpToThreshold ==
    cacheKey # None =>
        /\ keyUrl.len <= 200 => IsUrlItself(cacheKey, keyUrl)
        /\ keyUrl.len > 200 => IsHashKey(cacheKey, keyUrl)
        /\ cacheKey.len <= 200

\* C23 witness: a url of exactly 200 characters was keyed by itself
C23_Witness ==
    /\ cacheKey # None
    /\ keyUrl.len = 200
    /\ IsUrlItself(cacheKey, keyUrl)

\* a url of 201 characters got the hash key
C23_WitnessHashed ==
    /\ cacheKey # None
    /\ keyUrl.len = 201
    /\ IsHashKey(cacheKey, keyUrl)

-----------------------------------------------------------------------------
(* Properties of the extract endpoint (SpecApi) *)

\* the content stored for the url in cache c, None when there is none
StoredFor(c, url) ==
    IF \E i \in 1..Len(c) : c[i].key = MakeCacheKey(url)
    THEN Some(EntryOf(c, MakeCacheKey(url)).compressed_data.payload)
    ELSE None

\* a request other than reqs[i] stored the url after reqs[i] called get and
\* before the first `upto` requests had ended
StoredByOther(i, upto) ==
    \E m \in (reqs[i].began + 1)..upto :
        /\ m # i
        /\ reqs[m].url = reqs[i].url
        /\ ~reqs[m].cache_hit /\ reqs[m].raised = ""

\* C27: a request that hits returns the content the cache held for its url,
\* calls extract zero times and reports cache_hit = true; a request that
\* misses calls extract once and reports cache_hit = false, and when extract
\* returns, its result is stored for the url; when extract raises, the
\* request stores nothing (nothing is stored for the url unless another
\* request stored it meanwhile) and a later request for the url calls
\* extract again.
C27_CacheBeforeExtraction ==
    \A i \in 1..Len(reqs) :
        /\ reqs[i].cache_hit =>
              /\ reqs[i].extracted = 0
              /\ reqs[i].raised = ""
              /\ Some(reqs[i].content) = StoredFor(reqs[i].seen, reqs[i].url)
        /\ ~reqs[i].cache_hit => reqs[i].extracted = 1
        /\ (~reqs[i].cache_hit /\ reqs[i].raised = "") =>
              StoredFor(reqs[i].post, reqs[i].url) = Some(reqs[i].content)
        /\ reqs[i].raised # "" =>
              /\ reqs[i].post = reqs[i].pre
              /\ ~StoredByOther(i, i) => StoredFor(reqs[i].post, reqs[i].url) = None
              /\ \A j \in (i + 1)..Len(reqs) :
                    (/\ reqs[j].url = reqs[i].url
                     /\ reqs[j].began >= i
                     /\ ~StoredByOther(i, reqs[j].began))
                    => (~reqs[j].cache_hit /\ reqs[j].extracted = 1)

\* C27 witness: a request whose extraction raised, then a request for the
\* same url that extracted and stored, then a request that hit
C27_Witness ==
    /\ Len(reqs) = 3
    /\ reqs[1].raised # "" /\ reqs[2].began = 1 /\ reqs[3].began = 2
    /\ reqs[2].url = reqs[1].url /\ reqs[3].url = reqs[1].url
    /\ reqs[2].extracted = 1 /\ reqs[2].raised = ""
    /\ reqs[3].cache_hit /\ reqs[3].content = reqs[2].content

=============================================================================
